---- MODULE Spec2Model ----
EXTENDS Integers, Sequences, FiniteSets, Bags, TLC

(***************************************************************************)
(* weft, detsched build.  Scheduler.Spawn starts one goroutine per task    *)
(* and counts it in a sync.WaitGroup; Scheduler.Wait is WaitGroup.Wait.    *)
(* weft.Mutex / weft.RWMutex allocate their scheduler mutex lazily on the  *)
(* first Lock and delegate to sync.Mutex / sync.RWMutex; weft.Chan wraps a *)
(* native channel; weft.Cond wraps sync.Cond over the Locker it is given.  *)
(* Goroutines are interleaved by the Go runtime: every step below is one   *)
(* memory access or one sync operation of one goroutine.                   *)
(*                                                                         *)
(* A task body is a sequence of instructions [op, a, b]; pc[t] is the      *)
(* index of the instruction task t executes next and step[t] its position  *)
(* inside a multi-step primitive (Lock, Unlock, Cond.Wait).                *)
(***************************************************************************)

VARIABLES
    scenario,   \* the build function under test
    seed,       \* argument of NewScheduler, kept in Scheduler.rng
    run,        \* 1 for the first run of the build function, 2 for its replay
    first,      \* outcome of run 1, kept by the replaying test
    prog,       \* prog[t]: name of the body task t runs
    pc,         \* pc[t]: next instruction of task t
    step,       \* step[t]: position inside the current primitive
    status,     \* status[t]: "none", "run", "panicked", "done"
    temp,       \* temp[t]: the task's local variable
    ptr,        \* ptr[t]: the *scheduler.Mutex the task loaded from m.mu
    wg,         \* wg[sch]: the waitGroup counter of scheduler sch
    home,       \* home[t]: the scheduler whose Spawn started task t
    waited,     \* Scheduler.Wait has returned
    crashed,    \* the process has died (goroutine panic or runtime fatal error)
    muPtr,      \* muPtr[m]: weft.Mutex.mu, NoInst while nil
    locked,     \* locked[m][i]: state of the sync mutex instance i of m
    shared,     \* shared[v]: variables captured by the task closures
    trace,      \* (task, operation, resource) records of the run
    chBuf,      \* chBuf[c]: values buffered in channel c, oldest first
    chClosed,   \* chClosed[c]: close(c) has run
    sendq,      \* sendq[c]: senders blocked on c, each <<task, value>>
    recvq,      \* recvq[c]: receivers blocked on c
    wokenq,     \* wokenq[c]: receivers close(c) made runnable, not yet resumed
    rxv,        \* rxv[t]: value of the task's last receive
    rxok,       \* rxok[t]: boolean result of the task's last channel operation
    sent,       \* sent[c]: bag of the values c has accepted from senders
    rcvd,       \* rcvd[c]: bag of the values receivers got from c with ok = true
    consumed,   \* ProducerConsumer.consumed
    condQ,      \* condQ[c]: sync.Cond notify list, tasks not yet notified
    notified,   \* notified[t]: the task's notify-list ticket has been served
    waitq,      \* waitq[m][i]: tasks asleep in sync.Mutex.Lock of instance i of m
    readerCount,   \* readerCount[i]: readers holding or asleep in RLock, instance i
    writerPending, \* writerPending[i]: a writer has announced itself (readerCount < 0)
    readerWait,    \* readerWait[i]: departing readers the announced writer waits for
    now,        \* time.Now(), in nanoseconds since the run began
    deadline,   \* deadline[t]: when the runtime timer of task t fires, NoTimer if none
    since,      \* since[t]: time.Now() at the task's last Sleep or After call
    fired,      \* tasks in the order in which their Sleep or After completed
    mode,       \* build of the wefttest package: "detsched" or "notag"
    api,        \* the wefttest function the test calls
    tb,         \* dynamic type of its testing.TB argument: "T" or "mock"
    hstep,      \* position inside that function
    runs,       \* number of seeds it is asked to run
    results,    \* results[k]: how the k-th call of build ended
    skipped,    \* t.Skip / t.Skipf has been called
    skipMsg,    \* the message given to it, as lines
    schedulers, \* calls of weft.NewScheduler so far
    builds,     \* calls of the build function so far
    failed,     \* the test (or one of its subtests) is marked failed
    reported,   \* runs whose seed a failure message or subtest name has shown
    jobs,       \* WorkerPool.jobs, as job numbers
    executed,   \* <<worker, job>> for every call of a job function, in order
    completed   \* TestWorkerPool's completed slice

chVars == <<chBuf, chClosed, sendq, recvq, wokenq, rxv, rxok, sent, rcvd>>

cvVars == <<condQ, notified>>

\* State of the primitives only some build functions use.
rwVars == <<readerCount, writerPending, readerWait>>

clkVars == <<now, deadline, since, fired>>

hVars == <<mode, api, tb, hstep, runs, results, skipped, skipMsg, schedulers, builds,
           failed, reported>>

wpVars == <<jobs, executed, completed>>

extVars == <<waitq, rwVars, clkVars, hVars, wpVars>>

vars == <<scenario, seed, run, first, prog, pc, step, status, temp, ptr,
          wg, home, waited, crashed, muPtr, locked, shared, trace, chVars,
          consumed, cvVars, extVars>>

\* Tasks a build function spawns.
NumTasks == 2

MaxTasks == NumTasks + 1

\* The goroutine that runs the build function (the test goroutine).
Driver == 0

\* m.mu == nil
NoInst == -1

\* deadline[t] of a task with no timer running.
NoTimer == -1

\* The wall clock is followed for MaxNow nanoseconds.
MaxNow == 3

\* Sleep and After divide the duration they are given by 1000.
SpeedUp == 1000

Tasks == 1..MaxTasks

Procs == 0..MaxTasks

Seeds == {42, 12345}

Mutexes == {"mu", "mu1", "mu2", "acct1", "acct2", "pcmu", "acct"}

SharedVars ==
    {"value", "counter", "bal1", "bal2", "ok1", "ok2", "result", "ready", "processed",
     "activeJobs", "shutdown"}

\* Items the producer sends (1..NumItems).
NumItems == 3

\* TestChannel's ch, Queue.items / Queue.done of the ProducerConsumer, and an
\* unbuffered channel rv.
Chans == {"ch", "items", "done", "rv"}

\* Every channel made with a one-place buffer.
CapOne(c) == 1

\* MakeChan(cap): ch has capacity 1, Queue.done capacity 0, and the test's
\* queue holds as many items as are produced.
Cap(c) == IF c = "ch" THEN 1 ELSE IF c = "items" THEN NumItems ELSE 0

Conds == {"cond"}

\* The scheduler NewScheduler(seed) made for the run, and defaultScheduler.
Scheds == {"s", "default"}

\* NewCond(l): l.(sync.Locker) holds for every weft.Locker, so the sync.Cond
\* is built over the Locker that was passed, TestConditionVariable's &mu.
CondLocker(c) == "mu"

Ins(op, a, b) == [op |-> op, a |-> a, b |-> b]

Repeat(n, ins) == [i \in 1..n |-> ins]

\* Counter.Increment: Lock; value++; deferred Unlock.
ProgIncrement ==
    << Ins("Lock", "mu", 0), Ins("Load", "value", 0), Ins("Store", "value", 1),
       Ins("Unlock", "mu", 0) >>

\* Counter.IncrementWithWork: the lock is released between read and write.
ProgIncrementWithWork ==
    << Ins("Lock", "mu", 0), Ins("Load", "value", 0), Ins("Unlock", "mu", 0),
       Ins("Lock", "mu", 0), Ins("Store", "value", 1), Ins("Unlock", "mu", 0) >>

\* TestConcurrentCounter's closure: Lock; temp := counter; ctx.Yield();
\* counter = temp + 1; Unlock.
ProgYieldIncrement ==
    << Ins("Lock", "mu", 0), Ins("Load", "value", 0), Ins("Yield", "", 0),
       Ins("Store", "value", 1), Ins("Unlock", "mu", 0) >>

\* TestReplay's closure: counter++ with no synchronisation.
ProgRacyIncrement ==
    << Ins("Load", "counter", 0), Ins("Store", "counter", 1) >>

\* A task that spawns NumTasks tasks with Scheduler.Go and then works itself.
ProgSpawner ==
    Repeat(NumTasks, Ins("Go", "RacyIncrement", 0)) \o ProgRacyIncrement

\* Two tasks that take two mutexes in opposite orders (TestDeadlock without
\* its ctx.Yield calls; Transfer has the same shape).
ProgLockAB ==
    << Ins("Lock", "mu1", 0), Ins("Lock", "mu2", 0),
       Ins("Unlock", "mu2", 0), Ins("Unlock", "mu1", 0) >>

ProgLockBA ==
    << Ins("Lock", "mu2", 0), Ins("Lock", "mu1", 0),
       Ins("Unlock", "mu1", 0), Ins("Unlock", "mu2", 0) >>

\* SafeTransfer(from, to, amount) with first = acct1, second = acct2 (the
\* account at the lower address is locked first whatever the direction):
\* if from.balance < amount return false; from.balance -= amount;
\* to.balance += amount; return true; the deferred Unlocks run last.
SafeTransfer(from, to, amount, ok) ==
    << Ins("Lock", "acct1", 0), Ins("Lock", "acct2", 0),
       Ins("Load", from, 0), Ins("JmpLt", amount, 9),
       Ins("Store", from, 0 - amount),
       Ins("Load", to, 0), Ins("Store", to, amount),
       Ins("Set", ok, 1),
       Ins("Unlock", "acct2", 0), Ins("Unlock", "acct1", 0) >>

\* TestChannel's producer: Send 1..NumItems, then Close.
ProgProducer ==
    [i \in 1..NumItems |-> Ins("Send", "ch", i)] \o <<Ins("Close", "ch", 0)>>

\* TestChannel's consumer: for { v, ok := ch.Recv(); if !ok { break }; result += v }
ProgConsumer ==
    << Ins("Recv", "ch", 0), Ins("JmpNotOk", "", 5), Ins("Acc", "result", 0),
       Ins("Jmp", "", 1) >>

\* TestProducerConsumer's producer: Produce(items), each item retried until
\* Push (TrySend) takes it, then Queue.Close, which closes items and done.
ProgProduce ==
    [k \in 1..2 * NumItems |->
        IF k % 2 = 1 THEN Ins("TrySend", "items", (k + 1) \div 2)
                     ELSE Ins("JmpNotOk", "", k - 1)]
    \o << Ins("Close", "items", 0), Ins("Close", "done", 0) >>

\* Consume: for { item, ok := Pop(); if !ok { break }; Lock; append; Unlock };
\* Lock; result := pc.consumed; Unlock.  The slice returned is pc.consumed.
ProgConsume ==
    << Ins("TryRecv", "items", 0), Ins("JmpNotOk", "", 7),
       Ins("Lock", "pcmu", 0), Ins("Append", "", 0), Ins("Unlock", "pcmu", 0),
       Ins("Jmp", "", 1),
       Ins("Lock", "pcmu", 0), Ins("Unlock", "pcmu", 0) >>

\* TestConditionVariable's waiter: Lock; for !ready { cond.Wait() };
\* processed = true; Unlock.
ProgWaiter ==
    << Ins("Lock", "mu", 0), Ins("Load", "ready", 0), Ins("JmpLt", 1, 5),
       Ins("Jmp", "", 7), Ins("CondWait", "cond", 0), Ins("Jmp", "", 2),
       Ins("Set", "processed", 1), Ins("Unlock", "mu", 0) >>

\* TestConditionVariable's signaler: Sleep(10); Lock; ready = true; Signal; Unlock.
ProgSignaler ==
    << Ins("Sleep", "", 10), Ins("Lock", "mu", 0), Ins("Set", "ready", 1),
       Ins("Signal", "cond", 0), Ins("Unlock", "mu", 0) >>

\* Calls that the mutex contract forbids: Unlock with no Lock before it,
\* a second Unlock, a second Lock by the task that holds the mutex.
ProgUnlockOnly == << Ins("Unlock", "mu", 0) >>

ProgUnlockTwice ==
    << Ins("Lock", "mu", 0), Ins("Unlock", "mu", 0), Ins("Unlock", "mu", 0) >>

ProgLockTwice ==
    << Ins("Lock", "mu", 0), Ins("Lock", "mu", 0), Ins("Unlock", "mu", 0),
       Ins("Unlock", "mu", 0) >>

\* Lock/Unlock pairs and a TryLock on one mutex the build function has
\* already locked once, so that m.mu is set before any task starts.
ProgLockOnce == << Ins("Lock", "mu", 0), Ins("Unlock", "mu", 0) >>

ProgRelock == ProgLockOnce \o ProgLockOnce

ProgTryLocker ==
    << Ins("TryLock", "mu", 0), Ins("JmpNotOk", "", 4), Ins("Unlock", "mu", 0) >>

\* BankAccount.Deposit: mu.Lock(); balance += amount; mu.Unlock().
ProgDeposit ==
    << Ins("WLock", "acct", 0), Ins("Load", "bal1", 0), Ins("Store", "bal1", 10),
       Ins("WUnlock", "acct", 0) >>

\* BankAccount.Balance: mu.RLock(); return balance; mu.RUnlock().
ProgBalance ==
    << Ins("RLock", "acct", 0), Ins("Load", "bal1", 0), Ins("RUnlock", "acct", 0) >>

\* A reader that asks for the balance again and again.
ProgBalanceLoop == ProgBalance \o << Ins("Jmp", "", 1) >>

\* Task A: <-After(10).  Task B: <-After(5).  Neither does anything else.
ProgAfterTen == << Ins("After", "", 10) >>

ProgAfterFive == << Ins("After", "", 5) >>

\* s.Sleep(10), the "small delay" of TestConditionVariable's signaler, and a
\* sleep long enough to outlast the division by 1000.
ProgSleepTen == << Ins("Sleep", "", 10) >>

ProgSleepLong == << Ins("Sleep", "", 2 * SpeedUp) >>

\* for { ctx.Yield() }
ProgYieldLoop == << Ins("Yield", "", 0), Ins("Jmp", "", 1) >>

\* for { _ = counter }: a loop that never calls into the scheduler.
ProgSpinLoop == << Ins("Load", "counter", 0), Ins("Jmp", "", 1) >>

\* Jobs TestWorkerPool submits (1..NumJobs).
NumJobs == 2

\* Workers of the pool (NewWorkerPool(NumWorkers)).
NumWorkers == 1

\* WorkerPool.worker.  wp.mu is "mu", wp.cond is "cond", and "mu1" is the
\* mutex of TestWorkerPool's job closure, which is instructions 15 to 18.
ProgWorker ==
    << Ins("Lock", "mu", 0),
       Ins("JmpIf", "work", 5), Ins("CondWait", "cond", 0), Ins("Jmp", "", 2),
       Ins("JmpIf", "open", 8), Ins("Unlock", "mu", 0), Ins("Jmp", "", 24),
       Ins("JmpIf", "jobs", 11), Ins("Unlock", "mu", 0), Ins("Jmp", "", 1),
       Ins("TakeJob", "", 0), Ins("PopJob", "", 0), Ins("Add", "activeJobs", 1),
       Ins("Unlock", "mu", 0),
       Ins("RunJob", "", 0), Ins("Lock", "mu1", 0), Ins("AppendCompleted", "", 0),
       Ins("Unlock", "mu1", 0),
       Ins("Lock", "mu", 0), Ins("Add", "activeJobs", -1), Ins("Broadcast", "cond", 0),
       Ins("Unlock", "mu", 0), Ins("Jmp", "", 1) >>

\* WorkerPool.Submit of job j.
ProgSubmit(j) ==
    << Ins("Lock", "mu", 0), Ins("AppendJob", "", j), Ins("Signal", "cond", 0),
       Ins("Unlock", "mu", 0) >>

\* WorkerPool.Wait, as instructions at..at+4 of the build function.
ProgPoolWait(at) ==
    << Ins("Lock", "mu", 0), Ins("JmpIf", "idle", at + 4), Ins("CondWait", "cond", 0),
       Ins("Jmp", "", at + 1), Ins("Unlock", "mu", 0) >>

\* WorkerPool.Shutdown.
ProgShutdown ==
    << Ins("Lock", "mu", 0), Ins("Set", "shutdown", 1), Ins("Broadcast", "cond", 0),
       Ins("Unlock", "mu", 0) >>

\* The Submit calls of TestWorkerPool's loop, jobs 1..n.
RECURSIVE ProgSubmitAll(_)
ProgSubmitAll(n) == IF n = 0 THEN <<>> ELSE ProgSubmitAll(n - 1) \o ProgSubmit(n)

\* Index of WorkerPool.Wait's first instruction in TestWorkerPool.
PoolWaitAt == NumWorkers + 4 * NumJobs + 1

\* TestWorkerPool's build function: Start, the Submit loop, wp.Wait(),
\* wp.Shutdown(), s.Wait().
ProgTestWorkerPool ==
    Repeat(NumWorkers, Ins("Go", "Worker", 0))
    \o ProgSubmitAll(NumJobs)
    \o ProgPoolWait(PoolWaitAt)
    \o ProgShutdown
    \o << Ins("Wait", "", 0) >>

\* Channel calls made directly: two sends on the capacity-1 ch with nobody
\* receiving, two closes of ch, one blocking receive.
ProgSendTwo == << Ins("Send", "ch", 1), Ins("Send", "ch", 2) >>

ProgCloseTwo == << Ins("Close", "ch", 0), Ins("Close", "ch", 0) >>

ProgRecvOne == << Ins("Recv", "ch", 0) >>

ProgCloseOne == << Ins("Close", "ch", 0) >>

\* NumItems sends and NumItems receives on the unbuffered rv.
ProgRvSender == [i \in 1..NumItems |-> Ins("Send", "rv", i)]

ProgRvReceiver == Repeat(NumItems, Ins("Recv", "rv", 0))

\* Non-blocking sends and receives on the capacity-1 ch.
ProgTrySender == [i \in 1..NumItems |-> Ins("TrySend", "ch", i)]

ProgTryReceiver == Repeat(NumItems, Ins("TryRecv", "ch", 0))

\* A consumer like TestChannel's on the channel items, whose buffer holds
\* every value sent: for { v, ok := items.Recv(); if !ok { break }; result += v }
ProgDrainer ==
    << Ins("Recv", "items", 0), Ins("JmpNotOk", "", 5), Ins("Acc", "result", 0),
       Ins("Jmp", "", 1) >>

\* A producer like TestChannel's on the channel items: Send 1..NumItems, Close.
ProgFiller ==
    [i \in 1..NumItems |-> Ins("Send", "items", i)] \o <<Ins("Close", "items", 0)>>

\* The build function sends and closes itself, then starts the consumer.
ProgDrainClosed ==
    ProgFiller \o << Ins("Go", "Drainer", 0), Ins("Wait", "", 0) >>

\* TestChannel's consumer on the unbuffered rv, and its producer.
ProgRvConsumer ==
    << Ins("Recv", "rv", 0), Ins("JmpNotOk", "", 5), Ins("Acc", "result", 0),
       Ins("Jmp", "", 1) >>

ProgRvProducer ==
    [i \in 1..NumItems |-> Ins("Send", "rv", i)] \o <<Ins("Close", "rv", 0)>>

\* A pool that is started and shut down with no job submitted:
\* wp.Start(s); wp.Shutdown(); s.Wait().
ProgShutdownIdle ==
    Repeat(NumWorkers, Ins("Go", "Worker", 0)) \o ProgShutdown \o << Ins("Wait", "", 0) >>

\* Transfer(from, to, amount), mfrom and mto the accounts' mutexes:
\* from.mu.Lock(); if from.balance < amount return false; to.mu.Lock();
\* from.balance -= amount; to.balance += amount; return true; the deferred
\* Unlocks run last (only from's on the early return).
Transfer(from, to, amount, ok, mfrom, mto) ==
    << Ins("Lock", mfrom, 0),
       Ins("Load", from, 0), Ins("JmpLt", amount, 11),
       Ins("Lock", mto, 0),
       Ins("Load", from, 0), Ins("Store", from, 0 - amount),
       Ins("Load", to, 0), Ins("Store", to, amount),
       Ins("Set", ok, 1),
       Ins("Unlock", mto, 0), Ins("Unlock", mfrom, 0) >>

\* A task that calls wp.Wait() while jobs are being submitted.
ProgPoolWaiter == ProgPoolWait(1)

\* A pool that is never shut down: wp.Start(s); a task that calls
\* wp.Wait(); the Submit loop.
ProgPoolWaiters ==
    Repeat(NumWorkers, Ins("Go", "WorkerPlain", 0))
    \o << Ins("Go", "PoolWaiter", 0) >>
    \o ProgSubmitAll(NumJobs)

\* WorkerPool.worker running jobs that touch nothing shared.
ProgWorkerPlain ==
    << Ins("Lock", "mu", 0),
       Ins("JmpIf", "work", 5), Ins("CondWait", "cond", 0), Ins("Jmp", "", 2),
       Ins("JmpIf", "open", 8), Ins("Unlock", "mu", 0), Ins("Jmp", "", 21),
       Ins("JmpIf", "jobs", 11), Ins("Unlock", "mu", 0), Ins("Jmp", "", 1),
       Ins("TakeJob", "", 0), Ins("PopJob", "", 0), Ins("Add", "activeJobs", 1),
       Ins("Unlock", "mu", 0),
       Ins("RunJob", "", 0),
       Ins("Lock", "mu", 0), Ins("Add", "activeJobs", -1), Ins("Broadcast", "cond", 0),
       Ins("Unlock", "mu", 0), Ins("Jmp", "", 1) >>

Body(name) ==
    CASE name = "Increment" -> ProgIncrement
      [] name = "WorkerPlain" -> ProgWorkerPlain
      [] name = "PoolWaiters" -> ProgPoolWaiters
      [] name = "PoolWaiter" -> ProgPoolWaiter
      [] name = "Overdraft" -> << Ins("Go", "TransferBig12", 0), Ins("Go", "SafeTransfer21", 0), Ins("Wait", "", 0) >>
      [] name = "TestBankAccountTransfer" -> << Ins("Go", "Transfer12", 0), Ins("Go", "Transfer21", 0), Ins("Wait", "", 0) >>
      [] name = "TransferBig12" -> Transfer("bal1", "bal2", 150, "ok1", "acct1", "acct2")
      [] name = "Transfer21" -> Transfer("bal2", "bal1", 30, "ok2", "acct2", "acct1")
      [] name = "Transfer12" -> Transfer("bal1", "bal2", 50, "ok1", "acct1", "acct2")
      [] name = "TestCounterRaceCondition" -> Repeat(NumTasks, Ins("Go", "IncrementWithWork", 0)) \o <<Ins("Wait", "", 0)>>
      [] name = "ShutdownIdle" -> ProgShutdownIdle
      [] name = "RvChannel" -> << Ins("Go", "RvProducer", 0), Ins("Go", "RvConsumer", 0), Ins("Wait", "", 0) >>
      [] name = "FillAndDrain" -> << Ins("Go", "Filler", 0), Ins("Go", "Drainer", 0), Ins("Wait", "", 0) >>
      [] name = "RvProducer" -> ProgRvProducer
      [] name = "RvConsumer" -> ProgRvConsumer
      [] name = "DrainClosed" -> ProgDrainClosed
      [] name = "Filler" -> ProgFiller
      [] name = "Drainer" -> ProgDrainer
      [] name = "SendTwo" -> ProgSendTwo
      [] name = "CloseTwo" -> ProgCloseTwo
      [] name = "RecvOne" -> ProgRecvOne
      [] name = "CloseOne" -> ProgCloseOne
      [] name = "RvSender" -> ProgRvSender
      [] name = "RvReceiver" -> ProgRvReceiver
      [] name = "TrySender" -> ProgTrySender
      [] name = "TryReceiver" -> ProgTryReceiver
      [] name = "CloseMisuse" ->
            << Ins("Go", "SendTwo", 0), Ins("Go", "CloseTwo", 0), Ins("Wait", "", 0) >>
      [] name = "CloseWakes" ->
            << Ins("Go", "RecvOne", 0), Ins("Go", "RecvOne", 0), Ins("Go", "CloseOne", 0),
               Ins("Wait", "", 0) >>
      [] name = "Rendezvous" ->
            << Ins("Go", "RvSender", 0), Ins("Go", "RvReceiver", 0), Ins("Wait", "", 0) >>
      [] name = "TryOps" ->
            << Ins("Go", "TrySender", 0), Ins("Go", "TryReceiver", 0), Ins("Go", "RecvOne", 0),
               Ins("Wait", "", 0) >>
      [] name = "UnlockOnly" -> ProgUnlockOnly
      [] name = "UnlockTwice" -> ProgUnlockTwice
      [] name = "LockTwice" -> ProgLockTwice
      [] name = "LockOnce" -> ProgLockOnce
      [] name = "Relock" -> ProgRelock
      [] name = "TryLocker" -> ProgTryLocker
      [] name = "Barging" ->
            ProgLockOnce
            \o << Ins("Go", "Relock", 0), Ins("Go", "LockOnce", 0), Ins("Wait", "", 0) >>
      [] name = "TryBarging" ->
            ProgLockOnce
            \o Repeat(NumTasks, Ins("Go", "LockOnce", 0))
            \o << Ins("Go", "TryLocker", 0), Ins("Wait", "", 0) >>
      [] name = "Deposit" -> ProgDeposit
      [] name = "Balance" -> ProgBalance
      [] name = "BalanceLoop" -> ProgBalanceLoop
      [] name = "TwoWriters" ->
            ProgDeposit
            \o << Ins("Go", "Deposit", 0), Ins("Go", "Deposit", 0), Ins("Go", "Balance", 0),
                  Ins("Wait", "", 0) >>
      [] name = "ReadersWriter" ->
            ProgDeposit
            \o Repeat(NumTasks, Ins("Go", "BalanceLoop", 0))
            \o << Ins("Go", "Deposit", 0), Ins("Wait", "", 0) >>
      [] name = "ZeroReadersWriter" ->
            Repeat(NumTasks, Ins("Go", "BalanceLoop", 0))
            \o << Ins("Go", "Deposit", 0), Ins("Wait", "", 0) >>
      [] name = "AfterTen" -> ProgAfterTen
      [] name = "AfterFive" -> ProgAfterFive
      [] name = "SleepTen" -> ProgSleepTen
      [] name = "SleepLong" -> ProgSleepLong
      [] name = "Timers" ->
            << Ins("Go", "AfterTen", 0), Ins("Go", "AfterFive", 0), Ins("Wait", "", 0) >>
      [] name = "Sleepers" ->
            << Ins("Go", "SleepTen", 0), Ins("Go", "SleepLong", 0), Ins("Go", "AfterTen", 0),
               Ins("Wait", "", 0) >>
      [] name = "YieldLoop" -> ProgYieldLoop
      [] name = "SpinLoop" -> ProgSpinLoop
      [] name = "YieldForever" ->
            << Ins("Go", "YieldLoop", 0) >> \o Repeat(NumTasks, Ins("Go", "RacyIncrement", 0))
            \o << Ins("Wait", "", 0) >>
      [] name = "SpinForever" ->
            << Ins("Go", "SpinLoop", 0) >> \o Repeat(NumTasks, Ins("Go", "RacyIncrement", 0))
            \o << Ins("Wait", "", 0) >>
      [] name = "Worker" -> ProgWorker
      [] name = "TestWorkerPool" -> ProgTestWorkerPool
      [] name = "UnlockZero" ->
            << Ins("Go", "UnlockOnly", 0), Ins("Wait", "", 0) >>
      [] name = "UnlockAgain" ->
            << Ins("Go", "UnlockTwice", 0), Ins("Wait", "", 0) >>
      [] name = "UnlockOther" ->
            << Ins("Go", "Increment", 0), Ins("Go", "UnlockOnly", 0), Ins("Wait", "", 0) >>
      [] name = "LockAgain" ->
            << Ins("Go", "LockTwice", 0), Ins("Go", "Increment", 0), Ins("Wait", "", 0) >>
      [] name = "Producer" -> ProgProducer
      [] name = "Consumer" -> ProgConsumer
      [] name = "Produce" -> ProgProduce
      [] name = "Consume" -> ProgConsume
      [] name = "Waiter" -> ProgWaiter
      [] name = "Signaler" -> ProgSignaler
      [] name = "IncrementWithWork" -> ProgIncrementWithWork
      [] name = "YieldIncrement" -> ProgYieldIncrement
      [] name = "RacyIncrement" -> ProgRacyIncrement
      [] name = "Spawner" -> ProgSpawner
      [] name = "LockAB" -> ProgLockAB
      [] name = "LockBA" -> ProgLockBA
      [] name = "SafeTransfer12" -> SafeTransfer("bal1", "bal2", 50, "ok1")
      [] name = "SafeTransfer21" -> SafeTransfer("bal2", "bal1", 30, "ok2")
      \* build functions, run by the driver
      [] name = "TestCounter" ->
            Repeat(NumTasks, Ins("Go", "Increment", 0)) \o <<Ins("Wait", "", 0)>>
      [] name = "TestYieldCounter" ->
            Repeat(NumTasks, Ins("Go", "YieldIncrement", 0)) \o <<Ins("Wait", "", 0)>>
      [] name = "TestReplaySpecificSeed" ->
            Repeat(NumTasks, Ins("Go", "IncrementWithWork", 0)) \o <<Ins("Wait", "", 0)>>
      [] name = "TestReplay" ->
            Repeat(NumTasks, Ins("Go", "RacyIncrement", 0)) \o <<Ins("Wait", "", 0)>>
      [] name = "TestNestedSpawn" ->
            << Ins("Go", "Spawner", 0), Ins("Wait", "", 0) >>
      [] name = "TestDeadlock" ->
            << Ins("Go", "LockAB", 0), Ins("Go", "LockBA", 0), Ins("Wait", "", 0) >>
      [] name = "TestSafeBankAccountTransfer" ->
            << Ins("Go", "SafeTransfer12", 0), Ins("Go", "SafeTransfer21", 0),
               Ins("Wait", "", 0) >>
      \* Explore(t, runs, build): build(s); s.Wait(), with the README's build
      \* function (tasks started with weft.Go) and with TestCounter's.
      [] name = "ExploreQuickStart" ->
            Repeat(NumTasks, Ins("GoDefault", "Increment", 0))
            \o << Ins("Wait", "", 0), Ins("Wait", "", 0) >>
      [] name = "ExploreTestCounter" ->
            Repeat(NumTasks, Ins("Go", "Increment", 0))
            \o << Ins("Wait", "", 0), Ins("Wait", "", 0) >>
      [] name = "TestChannel" ->
            << Ins("Go", "Producer", 0), Ins("Go", "Consumer", 0), Ins("Wait", "", 0) >>
      [] name = "TestProducerConsumer" ->
            << Ins("Go", "Produce", 0), Ins("Go", "Consume", 0), Ins("Wait", "", 0) >>
      [] name = "TestConditionVariable" ->
            << Ins("Go", "Waiter", 0), Ins("Go", "Signaler", 0), Ins("Wait", "", 0) >>

\* Every function a scenario runs: the build functions and the task bodies.
ProgNames ==
    {"Increment", "WorkerPlain",
     "PoolWaiters",
     "PoolWaiter",
     "Overdraft",
     "TestBankAccountTransfer",
     "TransferBig12",
     "Transfer21",
     "Transfer12",
     "TestCounterRaceCondition",
     "ShutdownIdle",
     "RvChannel",
     "FillAndDrain",
     "RvProducer",
     "RvConsumer",
     "DrainClosed",
     "Filler",
     "Drainer",
     "SendTwo", "CloseTwo", "RecvOne", "CloseOne", "RvSender", "RvReceiver",
     "TrySender", "TryReceiver", "CloseMisuse", "CloseWakes", "Rendezvous", "TryOps", "UnlockOnly",
     "UnlockTwice", "LockTwice", "LockOnce", "Relock", "TryLocker", "Barging", "TryBarging",
     "Deposit", "Balance", "BalanceLoop", "TwoWriters", "ReadersWriter", "ZeroReadersWriter",
     "AfterTen", "AfterFive", "SleepTen", "SleepLong", "Timers", "Sleepers", "YieldLoop",
     "SpinLoop", "YieldForever", "SpinForever", "Worker", "TestWorkerPool", "UnlockZero",
     "UnlockAgain", "UnlockOther", "LockAgain", "Producer", "Consumer", "Produce", "Consume",
     "Waiter", "Signaler", "IncrementWithWork", "YieldIncrement", "RacyIncrement", "Spawner",
     "LockAB", "LockBA", "SafeTransfer12", "SafeTransfer21", "TestCounter", "TestYieldCounter",
     "TestReplaySpecificSeed", "TestReplay", "TestNestedSpawn", "TestDeadlock",
     "TestSafeBankAccountTransfer", "ExploreQuickStart", "ExploreTestCounter", "TestChannel",
     "TestProducerConsumer", "TestConditionVariable"}

\* The instructions of each of them, as a table.
Bodies == [name \in ProgNames |-> Body(name)]

\* NewBankAccount(100) for both accounts; everything else starts at zero.
InitShared ==
    [v \in SharedVars |-> IF v \in {"bal1", "bal2"} THEN 100 ELSE 0]

Cur(t) == Bodies[prog[t]][pc[t]]

AtIns(t, op) ==
    /\ ~crashed
    /\ status[t] = "run"
    /\ pc[t] <= Len(Bodies[prog[t]])
    /\ Cur(t).op = op

Advance(t) ==
    /\ pc' = [pc EXCEPT ![t] = pc[t] + 1]
    /\ step' = [step EXCEPT ![t] = "begin"]

\* The harness state while a build function runs: wefttest.Replay, built
\* with -tags=detsched, has made its scheduler and called build.
InsideBuild ==
    /\ mode = "detsched"
    /\ api = "Replay"
    /\ tb = "T"
    /\ hstep = "run"
    /\ runs = 1
    /\ results = <<>>
    /\ skipped = FALSE
    /\ skipMsg = <<>>
    /\ schedulers = 1
    /\ builds = 1
    /\ failed = FALSE
    /\ reported = {}

\* The state right after NewScheduler(sd) in build function sc.
Fresh(sc) ==
    [ prog   |-> [t \in Procs |-> IF t = Driver THEN sc ELSE "none"],
      pc     |-> [t \in Procs |-> 1],
      step   |-> [t \in Procs |-> "begin"],
      status |-> [t \in Procs |-> IF t = Driver THEN "run" ELSE "none"],
      temp   |-> [t \in Procs |-> 0],
      ptr    |-> [t \in Procs |-> NoInst],
      muPtr  |-> [m \in Mutexes |-> NoInst],
      locked |-> [m \in Mutexes |-> [i \in Procs |-> FALSE]],
      shared |-> InitShared,
      chBuf    |-> [c \in Chans |-> <<>>],
      chClosed |-> [c \in Chans |-> FALSE],
      sendq    |-> [c \in Chans |-> <<>>],
      recvq    |-> [c \in Chans |-> <<>>],
      wokenq   |-> [c \in Chans |-> <<>>],
      rxv      |-> [t \in Procs |-> 0],
      rxok     |-> [t \in Procs |-> FALSE],
      sent     |-> [c \in Chans |-> EmptyBag],
      rcvd     |-> [c \in Chans |-> EmptyBag],
      condQ    |-> [c \in Conds |-> <<>>],
      notified |-> [t \in Procs |-> FALSE],
      waitq    |-> [m \in Mutexes |-> [i \in Procs |-> <<>>]],
      readerCount   |-> [i \in Procs |-> 0],
      writerPending |-> [i \in Procs |-> FALSE],
      readerWait    |-> [i \in Procs |-> 0],
      deadline |-> [t \in Procs |-> NoTimer],
      since    |-> [t \in Procs |-> 0],
      fired    |-> <<>>,
      jobs      |-> <<>>,
      executed  |-> <<>>,
      completed |-> <<>> ]

Loaded(sc, sd) ==
    /\ scenario = sc
    /\ seed = sd
    /\ run = 1
    /\ first = <<>>
    /\ prog = Fresh(sc).prog
    /\ pc = Fresh(sc).pc
    /\ step = Fresh(sc).step
    /\ status = Fresh(sc).status
    /\ temp = Fresh(sc).temp
    /\ ptr = Fresh(sc).ptr
    /\ wg = [sch \in Scheds |-> 0]
    /\ home = [t \in Procs |-> "s"]
    /\ waited = FALSE
    /\ crashed = FALSE
    /\ muPtr = Fresh(sc).muPtr
    /\ locked = Fresh(sc).locked
    /\ shared = Fresh(sc).shared
    /\ trace = <<>>
    /\ chBuf = Fresh(sc).chBuf
    /\ chClosed = Fresh(sc).chClosed
    /\ sendq = Fresh(sc).sendq
    /\ recvq = Fresh(sc).recvq
    /\ wokenq = Fresh(sc).wokenq
    /\ rxv = Fresh(sc).rxv
    /\ rxok = Fresh(sc).rxok
    /\ sent = Fresh(sc).sent
    /\ rcvd = Fresh(sc).rcvd
    /\ consumed = <<>>
    /\ condQ = Fresh(sc).condQ
    /\ notified = Fresh(sc).notified
    /\ waitq = Fresh(sc).waitq
    /\ readerCount = Fresh(sc).readerCount
    /\ writerPending = Fresh(sc).writerPending
    /\ readerWait = Fresh(sc).readerWait
    /\ now = 0
    /\ deadline = Fresh(sc).deadline
    /\ since = Fresh(sc).since
    /\ fired = Fresh(sc).fired
    /\ jobs = Fresh(sc).jobs
    /\ executed = Fresh(sc).executed
    /\ completed = Fresh(sc).completed

\* build function sc starts to run under wefttest.Replay(t, sd, build).
Start(sc, sd) == Loaded(sc, sd) /\ InsideBuild

-----------------------------------------------------------------------------
(* Scheduler: Spawn, Wait, task return, panics.                            *)

\* Spawn without its waitGroup.Add(1).
WgAddMissing(n) == n

\* s.waitGroup.Add(1)
WgAdd(n) == n + 1

\* The slot of the next goroutine: tasks are numbered in spawn order.
NextSlot == CHOOSE t \in Tasks : status[t] = "none" /\ \A u \in Tasks : u < t => status[u] # "none"

\* scheduler.Spawn on scheduler sch: waitGroup.Add(1); go func() { defer Done(); fn(nil) }()
Spawn(t, sch) ==
    /\ \E u \in Tasks : status[u] = "none"
    /\ wg' = [wg EXCEPT ![sch] = WgAdd(wg[sch])]
    /\ home' = [home EXCEPT ![NextSlot] = sch]
    /\ prog' = [prog EXCEPT ![NextSlot] = Cur(t).a]
    /\ status' = [status EXCEPT ![NextSlot] = "run"]
    /\ Advance(t)
    /\ UNCHANGED <<extVars, chVars, cvVars, consumed, scenario, seed, run, first, temp, ptr, waited, crashed,
                   muPtr, locked, shared, trace>>

\* s.Go(fn): Spawn on the scheduler the build function was given.
Go(t) ==
    /\ AtIns(t, "Go")
    /\ Spawn(t, "s")

\* weft.Go(fn): defaultScheduler.Go(fn), a scheduler of its own.
GoDefault(t) ==
    /\ AtIns(t, "GoDefault")
    /\ Spawn(t, "default")

\* A waitGroup.Wait() that goes on only while tasks are counted.
WgNonZero(n) == n > 0

\* waitGroup.Wait() goes on when the counter is zero.
WgZero(n) == n = 0

\* The deferred s.waitGroup.Done() of task t's goroutine.
Done(t) == IF t = Driver THEN wg ELSE [wg EXCEPT ![home[t]] = wg[home[t]] - 1]

\* s.Wait(): waitGroup.Wait() on the scheduler the build function was given.
Wait(t) ==
    /\ AtIns(t, "Wait")
    /\ WgZero(wg["s"])
    /\ waited' = TRUE
    /\ Advance(t)
    /\ UNCHANGED <<extVars, chVars, cvVars, consumed, home, scenario, seed, run, first, prog, status, temp, ptr, wg,
                   crashed, muPtr, locked, shared, trace>>

\* fn returns: the deferred waitGroup.Done() runs.  The driver's return is
\* the end of the build function and of the test.
TaskReturn(t) ==
    /\ ~crashed
    /\ status[t] = "run"
    /\ pc[t] > Len(Bodies[prog[t]])
    /\ status' = [status EXCEPT ![t] = "done"]
    /\ wg' = Done(t)
    /\ UNCHANGED <<extVars, chVars, cvVars, consumed, home, scenario, seed, run, first, prog, pc, step, temp, ptr,
                   waited, crashed, muPtr, locked, shared, trace>>

\* A panic in a task goroutine: the deferred Done runs, nothing recovers.
Panicked(t) ==
    /\ status' = [status EXCEPT ![t] = "panicked"]
    /\ wg' = Done(t)

\* The runtime ends the process after an unrecovered panic.
Crash ==
    /\ ~crashed
    /\ \E t \in Procs : status[t] = "panicked"
    /\ crashed' = TRUE
    /\ UNCHANGED <<extVars, chVars, cvVars, consumed, home, scenario, seed, run, first, prog, pc, step, status, temp,
                   ptr, wg, waited, muPtr, locked, shared, trace>>

\* ctx.Yield(): Spawn calls fn(nil), so ctx is the nil interface and the call
\* is a nil dereference.
Yield(t) ==
    /\ AtIns(t, "Yield")
    /\ Panicked(t)
    /\ UNCHANGED <<extVars, chVars, cvVars, consumed, home, scenario, seed, run, first, prog, pc, step, temp, ptr,
                   waited, crashed, muPtr, locked, shared, trace>>

-----------------------------------------------------------------------------
(* Plain memory accesses of the task closures.                             *)

Load(t) ==
    /\ AtIns(t, "Load")
    /\ temp' = [temp EXCEPT ![t] = shared[Cur(t).a]]
    /\ Advance(t)
    /\ UNCHANGED <<extVars, chVars, cvVars, consumed, home, scenario, seed, run, first, prog, status, ptr, wg, waited,
                   crashed, muPtr, locked, shared, trace>>

\* The value read is written back as it was.
StoreSame(t) ==
    /\ AtIns(t, "Store")
    /\ shared' = [shared EXCEPT ![Cur(t).a] = temp[t]]
    /\ Advance(t)
    /\ UNCHANGED <<extVars, chVars, cvVars, consumed, home, scenario, seed, run, first, prog, status, temp, ptr, wg,
                   waited, crashed, muPtr, locked, trace>>

\* c.value = temp + 1 (and the other writes of a value computed from temp)

Store(t) ==
    /\ AtIns(t, "Store")
    /\ shared' = [shared EXCEPT ![Cur(t).a] = temp[t] + Cur(t).b]
    /\ Advance(t)
    /\ UNCHANGED <<extVars, chVars, cvVars, consumed, home, scenario, seed, run, first, prog, status, temp, ptr, wg,
                   waited, crashed, muPtr, locked, trace>>

Set(t) ==
    /\ AtIns(t, "Set")
    /\ shared' = [shared EXCEPT ![Cur(t).a] = Cur(t).b]
    /\ Advance(t)
    /\ UNCHANGED <<extVars, chVars, cvVars, consumed, home, scenario, seed, run, first, prog, status, temp, ptr, wg,
                   waited, crashed, muPtr, locked, trace>>

\* The test is skipped: the statement after it is next.
JmpLtNever(t) ==
    /\ AtIns(t, "JmpLt")
    /\ pc' = [pc EXCEPT ![t] = pc[t] + 1]
    /\ UNCHANGED <<extVars, chVars, cvVars, consumed, home, scenario, seed, run, first, prog, step, status, temp, ptr,
                   wg, waited, crashed, muPtr, locked, shared, trace>>

\* if temp < a { goto b }
JmpLt(t) ==
    /\ AtIns(t, "JmpLt")
    /\ pc' = [pc EXCEPT ![t] = IF temp[t] < Cur(t).a THEN Cur(t).b ELSE pc[t] + 1]
    /\ UNCHANGED <<extVars, chVars, cvVars, consumed, home, scenario, seed, run, first, prog, step, status, temp, ptr,
                   wg, waited, crashed, muPtr, locked, shared, trace>>

-----------------------------------------------------------------------------
(* weft.Mutex / weft.RWMutex (write side) over sync.Mutex / sync.RWMutex.  *)
(* The instance a task allocates for m is named by the task: a task sees   *)
(* m.mu == nil at most once per mutex.                                     *)

\* if m.mu == nil
IsNil(p) == p = NoInst

\* Only TestReplaySpecificSeed is run twice and compared.
Recording == scenario = "TestReplaySpecificSeed"

Record(t, op, res) ==
    trace' = IF Recording THEN Append(trace, <<t, op, res>>) ELSE trace

\* The mutex an instruction works on: Cond.Wait works on the Cond's Locker.
LockOf(t) == IF Cur(t).op = "CondWait" THEN CondLocker(Cur(t).a) ELSE Cur(t).a

\* Task t is at statement s of Mutex.Lock, called by its body or by
\* sync.Cond.Wait (c.L.Lock()).
LockStep(t, s) ==
    \/ AtIns(t, "Lock") /\ step[t] = s
    \/ AtIns(t, "CondWait") /\ step[t] = (IF s = "begin" THEN "lcheck" ELSE s)
    \/ AtIns(t, "TryLock") /\ step[t] = s /\ s \in {"begin", "init", "load"}
    \/ AtIns(t, "RLock") /\ step[t] = s /\ s \in {"begin", "init", "load"}
    \/ AtIns(t, "WLock") /\ step[t] = s

\* Task t is at statement s of Mutex.Unlock, called by its body or by
\* sync.Cond.Wait (c.L.Unlock()).
UnlockStep(t, s) ==
    \/ AtIns(t, "Unlock") /\ step[t] = s
    \/ AtIns(t, "CondWait") /\ step[t] = (IF s = "begin" THEN "ucheck" ELSE "urel")
    \/ (AtIns(t, "RUnlock") \/ AtIns(t, "WUnlock")) /\ s = "begin" /\ step[t] = s

\* Mutex.Lock, first statement: the nil test of the lazy initialisation.
LockCheck(t) ==
    /\ LockStep(t, "begin")
    /\ step' = [step EXCEPT ![t] = IF IsNil(muPtr[LockOf(t)]) THEN "init" ELSE "load"]
    /\ UNCHANGED <<extVars, chVars, cvVars, consumed, home, scenario, seed, run, first, prog, pc, status, temp, ptr, wg,
                   waited, crashed, muPtr, locked, shared, trace>>

\* m.mu = scheduler.NewMutex()
LockInit(t) ==
    /\ LockStep(t, "init")
    /\ muPtr' = [muPtr EXCEPT ![LockOf(t)] = t]
    /\ step' = [step EXCEPT ![t] = "load"]
    /\ UNCHANGED <<extVars, chVars, cvVars, consumed, home, scenario, seed, run, first, prog, pc, status, temp, ptr, wg,
                   waited, crashed, locked, shared, trace>>

\* m.mu.Lock(): the receiver m.mu is read ...
LockLoad(t) ==
    /\ LockStep(t, "load")
    /\ ptr' = [ptr EXCEPT ![t] = muPtr[LockOf(t)]]
    /\ step' = [step EXCEPT ![t] = "acq"]
    /\ UNCHANGED <<extVars, chVars, cvVars, consumed, home, scenario, seed, run, first, prog, pc, status, temp, wg,
                   waited, crashed, muPtr, locked, shared, trace>>

\* ... and sync.Mutex.Lock blocks until that instance is free.
CanAcquire(m, i) == ~locked[m][i]

\* sync.Mutex.Lock found the instance locked: the caller queues on the
\* mutex's semaphore and sleeps.  A waiter that was woken and lost the
\* mutex again queues at the front (lifo = waitStartTime != 0).
LockPark(t) ==
    /\ LockStep(t, "acq") \/ LockStep(t, "retry")
    /\ ~CanAcquire(LockOf(t), ptr[t])
    /\ waitq' = [waitq EXCEPT ![LockOf(t)][ptr[t]] =
                    IF step[t] = "retry" THEN <<t>> \o @ ELSE Append(@, t)]
    /\ step' = [step EXCEPT ![t] = "wait"]
    /\ UNCHANGED <<hVars, wpVars, rwVars, clkVars, chVars, cvVars, consumed, home, scenario, seed, run, first, prog, pc, status, temp, ptr,
                   wg, waited, crashed, muPtr, locked, shared, trace>>

\* Lock returns, and with it the body's Lock call or Cond.Wait.  The caller
\* is a new arrival ("acq") or a waiter Unlock has woken ("retry"): in
\* normal mode both compete for the free mutex.
LockAcquire(t) ==
    /\ LockStep(t, "acq") \/ LockStep(t, "retry")
    /\ CanAcquire(LockOf(t), ptr[t])
    /\ locked' = [locked EXCEPT ![LockOf(t)][ptr[t]] = TRUE]
    /\ Record(t, "Lock", LockOf(t))
    /\ IF Cur(t).op = "WLock"
       THEN step' = [step EXCEPT ![t] = "announce"] /\ UNCHANGED pc
       ELSE Advance(t)
    /\ UNCHANGED <<extVars, chVars, cvVars, consumed, home, scenario, seed, run, first, prog, status, temp, ptr, wg,
                   waited, crashed, muPtr, shared>>

\* Mutex.Unlock, first statement: if m.mu == nil { panic(...) }
UnlockCheck(t) ==
    /\ UnlockStep(t, "begin")
    /\ IF IsNil(muPtr[LockOf(t)])
       THEN /\ Panicked(t)
            /\ UNCHANGED step
       ELSE /\ step' = [step EXCEPT ![t] = IF Cur(t).op = "CondWait" THEN "urel" ELSE "load"]
            /\ UNCHANGED <<status, wg>>
    /\ UNCHANGED <<extVars, chVars, cvVars, consumed, home, scenario, seed, run, first, prog, pc, temp, ptr, waited,
                   crashed, muPtr, locked, shared, trace>>

\* m.mu.Unlock(): sync.Mutex.Unlock of the instance m.mu names now; unlocking
\* an unlocked sync.Mutex is a runtime fatal error.  Inside Cond.Wait the
\* caller goes on to notifyListWait.
UnlockRelease(t) ==
    /\ UnlockStep(t, "load")
    /\ IF locked[LockOf(t)][muPtr[LockOf(t)]]
       THEN /\ locked' = [locked EXCEPT ![LockOf(t)][muPtr[LockOf(t)]] = FALSE]
            /\ LET q == waitq[LockOf(t)][muPtr[LockOf(t)]]
                   mine == IF Cur(t).op = "Unlock" THEN "begin" ELSE "park"
               IN  /\ waitq' = [waitq EXCEPT ![LockOf(t)][muPtr[LockOf(t)]] =
                                   IF q = <<>> THEN q ELSE Tail(q)]
                   /\ step' = IF q = <<>>
                              THEN [step EXCEPT ![t] = mine]
                              ELSE [step EXCEPT ![t] = mine, ![Head(q)] = "retry"]
            /\ pc' = IF Cur(t).op = "Unlock" THEN [pc EXCEPT ![t] = pc[t] + 1] ELSE pc
            /\ UNCHANGED crashed
       ELSE /\ crashed' = TRUE
            /\ UNCHANGED <<waitq, locked, pc, step>>
    /\ UNCHANGED <<hVars, wpVars, rwVars, clkVars, chVars, cvVars, consumed, home, scenario, seed, run, first, prog, status, temp, ptr, wg,
                   waited, muPtr, shared, trace>>

\* sync.RWMutex.Lock after rw.w.Lock(): the writer announces itself
\* (readerCount.Add(-rwmutexMaxReaders)) and counts the readers it waits for.
WLockAnnounce(t) ==
    /\ AtIns(t, "WLock")
    /\ step[t] = "announce"
    /\ writerPending' = [writerPending EXCEPT ![ptr[t]] = TRUE]
    /\ readerWait' = [readerWait EXCEPT ![ptr[t]] = @ + readerCount[ptr[t]]]
    /\ step' = [step EXCEPT ![t] = "drain"]
    /\ UNCHANGED <<hVars, wpVars, waitq, readerCount, clkVars, chVars, cvVars, consumed, home, scenario, seed, run, first,
                   prog, pc, status, temp, ptr, wg, waited, crashed, muPtr, locked, shared, trace>>

\* ... and Lock returns once the last of them has left.
WLockEnter(t) ==
    /\ AtIns(t, "WLock")
    /\ step[t] = "drain"
    /\ readerWait[ptr[t]] = 0
    /\ Advance(t)
    /\ UNCHANGED <<extVars, chVars, cvVars, consumed, home, scenario, seed, run, first, prog,
                   status, temp, ptr, wg, waited, crashed, muPtr, locked, shared, trace>>

\* rw.mu.RLock(): readerCount.Add(1); the caller sleeps if a writer has
\* announced itself.
RLockAcquire(t) ==
    /\ AtIns(t, "RLock")
    /\ step[t] = "acq"
    /\ readerCount' = [readerCount EXCEPT ![ptr[t]] = @ + 1]
    /\ IF writerPending[ptr[t]]
       THEN step' = [step EXCEPT ![t] = "rwait"] /\ UNCHANGED pc
       ELSE Advance(t)
    /\ UNCHANGED <<hVars, wpVars, waitq, writerPending, readerWait, clkVars, chVars, cvVars, consumed, home, scenario,
                   seed, run, first, prog, status, temp, ptr, wg, waited, crashed, muPtr, locked,
                   shared, trace>>

\* rw.mu.RUnlock(): readerCount.Add(-1); with no reader on the instance that
\* is the fatal error "sync: RUnlock of unlocked RWMutex"; with a writer
\* announced the reader also leaves readerWait.
RUnlockRelease(t) ==
    /\ AtIns(t, "RUnlock")
    /\ step[t] = "load"
    /\ LET i == muPtr[Cur(t).a]
       IN  IF readerCount[i] = 0
           THEN /\ crashed' = TRUE
                /\ UNCHANGED <<readerCount, readerWait, pc, step>>
           ELSE /\ readerCount' = [readerCount EXCEPT ![i] = @ - 1]
                /\ readerWait' = [readerWait EXCEPT ![i] = IF writerPending[i] THEN @ - 1 ELSE @]
                /\ Advance(t)
                /\ UNCHANGED crashed
    /\ UNCHANGED <<hVars, wpVars, waitq, writerPending, clkVars, chVars, cvVars, consumed, home, scenario, seed, run,
                   first, prog, status, temp, ptr, wg, waited, muPtr, locked, shared, trace>>

\* The readers asleep in RLock of instance i.
BlockedReaders(i) ==
    {u \in Procs : AtIns(u, "RLock") /\ step[u] = "rwait" /\ ptr[u] = i}

\* rw.mu.Unlock(), first half: readerCount.Add(rwmutexMaxReaders) withdraws
\* the announcement and releases the sleeping readers; with no writer
\* announced it is the fatal error "sync: Unlock of unlocked RWMutex".
WUnlockRelease(t) ==
    /\ AtIns(t, "WUnlock")
    /\ step[t] = "load"
    /\ LET i == muPtr[Cur(t).a]
       IN  IF writerPending[i]
           THEN /\ writerPending' = [writerPending EXCEPT ![i] = FALSE]
                /\ ptr' = [ptr EXCEPT ![t] = i]
                /\ pc' = [u \in Procs |-> IF u \in BlockedReaders(i) THEN pc[u] + 1 ELSE pc[u]]
                /\ step' = [u \in Procs |->
                               IF u = t THEN "wrel"
                               ELSE IF u \in BlockedReaders(i) THEN "begin" ELSE step[u]]
                /\ UNCHANGED crashed
           ELSE /\ crashed' = TRUE
                /\ UNCHANGED <<writerPending, ptr, pc, step>>
    /\ UNCHANGED <<hVars, wpVars, waitq, readerCount, readerWait, clkVars, chVars, cvVars, consumed, home, scenario, seed,
                   run, first, prog, status, temp, wg, waited, muPtr, locked, shared, trace>>

\* rw.mu.Unlock(), second half: rw.w.Unlock() lets the next writer in.
WUnlockW(t) ==
    /\ AtIns(t, "WUnlock")
    /\ step[t] = "wrel"
    /\ LET m == Cur(t).a
           q == waitq[m][ptr[t]]
       IN  IF locked[m][ptr[t]]
           THEN /\ locked' = [locked EXCEPT ![m][ptr[t]] = FALSE]
                /\ waitq' = [waitq EXCEPT ![m][ptr[t]] = IF q = <<>> THEN q ELSE Tail(q)]
                /\ step' = IF q = <<>>
                           THEN [step EXCEPT ![t] = "begin"]
                           ELSE [step EXCEPT ![t] = "begin", ![Head(q)] = "retry"]
                /\ pc' = [pc EXCEPT ![t] = pc[t] + 1]
                /\ UNCHANGED crashed
           ELSE /\ crashed' = TRUE
                /\ UNCHANGED <<waitq, locked, pc, step>>
    /\ UNCHANGED <<hVars, wpVars, rwVars, clkVars, chVars, cvVars, consumed, home, scenario, seed, run, first, prog,
                   status, temp, ptr, wg, waited, muPtr, shared, trace>>

\* return m.mu.TryLock(): takes the instance if it is free, never sleeps.
TryLock(t) ==
    /\ AtIns(t, "TryLock")
    /\ step[t] = "acq"
    /\ locked' = [locked EXCEPT ![LockOf(t)][ptr[t]] = TRUE]
    /\ rxok' = [rxok EXCEPT ![t] = CanAcquire(LockOf(t), ptr[t])]
    /\ Advance(t)
    /\ UNCHANGED <<extVars, chBuf, chClosed, sendq, recvq, wokenq, rxv, sent, rcvd, cvVars, consumed,
                   home, scenario, seed, run, first, prog, status, temp, ptr, wg, waited, crashed,
                   muPtr, shared, trace>>

-----------------------------------------------------------------------------
(* scheduler.Chan over a native channel.  A blocked operation completes in *)
(* the step of the operation that unblocks it: the runtime copies the value *)
(* between the two goroutines and readies the blocked one.                  *)

ChanOf(t) == Cur(t).a

\* A channel on which close is never seen.
IsClosedNever(c) == FALSE

\* The channel's closed flag, as send, receive and close test it.
IsClosed(c) == chClosed[c]

\* The buffer after its oldest value was taken, left as it was.
BufAfterRecvKept(buf) == buf

\* The buffer after its oldest value was taken.
BufAfterRecv(buf) == Tail(buf)

BagAdd(bag, v) == bag (+) SetToBag({v})

\* Program counters after the operations of the tasks in S returned.
Returned(S) == [p \in Procs |-> IF p \in S THEN pc[p] + 1 ELSE pc[p]]

Range(q) == {q[i] : i \in 1..Len(q)}

\* panic: send on closed channel
SendPanics(t) ==
    /\ Panicked(t)
    /\ UNCHANGED <<extVars, pc, step, chBuf, sendq, recvq, rxv, rxok, sent, rcvd>>

\* A receiver is blocked: the value goes straight to it.
SendHandOff(t, c, v) ==
    LET r == Head(recvq[c])
    IN  /\ recvq' = [recvq EXCEPT ![c] = Tail(recvq[c])]
        /\ rxv' = [rxv EXCEPT ![r] = v]
        /\ rxok' = [rxok EXCEPT ![r] = TRUE, ![t] = TRUE]
        /\ sent' = [sent EXCEPT ![c] = BagAdd(sent[c], v)]
        /\ rcvd' = [rcvd EXCEPT ![c] = BagAdd(rcvd[c], v)]
        /\ pc' = Returned({t, r})
        /\ step' = [step EXCEPT ![r] = "begin"]
        /\ UNCHANGED <<chBuf, sendq, status, wg>>

\* The value is stored in the buffer and the send reports no success.
SendBufferNoResult(t, c, v) ==
    /\ chBuf' = [chBuf EXCEPT ![c] = Append(chBuf[c], v)]
    /\ sent' = [sent EXCEPT ![c] = BagAdd(sent[c], v)]
    /\ rxok' = [rxok EXCEPT ![t] = FALSE]
    /\ Advance(t)
    /\ UNCHANGED <<extVars, sendq, recvq, rxv, rcvd, status, wg>>

\* The value is stored at the head of the buffer.
SendBufferFront(t, c, v) ==
    /\ chBuf' = [chBuf EXCEPT ![c] = <<v>> \o chBuf[c]]
    /\ sent' = [sent EXCEPT ![c] = BagAdd(sent[c], v)]
    /\ rxok' = [rxok EXCEPT ![t] = TRUE]
    /\ Advance(t)
    /\ UNCHANGED <<extVars, sendq, recvq, rxv, rcvd, status, wg>>

\* There is room in the buffer.
SendBuffer(t, c, v) ==
    /\ chBuf' = [chBuf EXCEPT ![c] = Append(chBuf[c], v)]
    /\ sent' = [sent EXCEPT ![c] = BagAdd(sent[c], v)]
    /\ rxok' = [rxok EXCEPT ![t] = TRUE]
    /\ Advance(t)
    /\ UNCHANGED <<extVars, sendq, recvq, rxv, rcvd, status, wg>>

\* Chan.Send: c.ch <- v
Send(t) ==
    /\ AtIns(t, "Send")
    /\ step[t] = "begin"
    /\ LET c == ChanOf(t)
           v == Cur(t).b
       IN  IF IsClosed(c) THEN SendPanics(t)
           ELSE IF recvq[c] # <<>> THEN SendHandOff(t, c, v)
           ELSE IF Len(chBuf[c]) < Cap(c) THEN SendBuffer(t, c, v)
           ELSE /\ sendq' = [sendq EXCEPT ![c] = Append(sendq[c], <<t, v>>)]
                /\ step' = [step EXCEPT ![t] = "parked"]
                /\ UNCHANGED <<pc, chBuf, recvq, rxv, rxok, sent, rcvd, status, wg>>
    /\ UNCHANGED <<extVars, chClosed, wokenq, cvVars, consumed, home, scenario, seed, run, first, prog, temp, ptr,
                   waited, crashed, muPtr, locked, shared, trace>>

\* Chan.TrySend: select { case c.ch <- v: return true; default: return false }
TrySend(t) ==
    /\ AtIns(t, "TrySend")
    /\ LET c == ChanOf(t)
           v == Cur(t).b
       IN  IF IsClosed(c) THEN SendPanics(t)
           ELSE IF recvq[c] # <<>> THEN SendHandOff(t, c, v)
           ELSE IF Len(chBuf[c]) < Cap(c) THEN SendBuffer(t, c, v)
           ELSE /\ rxok' = [rxok EXCEPT ![t] = FALSE]
                /\ Advance(t)
                /\ UNCHANGED <<chBuf, sendq, recvq, rxv, sent, rcvd, status, wg>>
    /\ UNCHANGED <<extVars, chClosed, wokenq, cvVars, consumed, home, scenario, seed, run, first, prog, temp, ptr,
                   waited, crashed, muPtr, locked, shared, trace>>

\* The buffer holds a value: the oldest is received, and the value of the
\* first blocked sender, if any, takes the freed place.
RecvBuffer(t, c) ==
    LET v == Head(chBuf[c])
        rest == BufAfterRecv(chBuf[c])
    IN  /\ rxv' = [rxv EXCEPT ![t] = v]
        /\ rxok' = [rxok EXCEPT ![t] = TRUE]
        /\ rcvd' = [rcvd EXCEPT ![c] = BagAdd(rcvd[c], v)]
        /\ IF sendq[c] # <<>>
           THEN LET s == Head(sendq[c])
                IN  /\ chBuf' = [chBuf EXCEPT ![c] = Append(rest, s[2])]
                    /\ sent' = [sent EXCEPT ![c] = BagAdd(sent[c], s[2])]
                    /\ sendq' = [sendq EXCEPT ![c] = Tail(sendq[c])]
                    /\ pc' = Returned({t, s[1]})
                    /\ step' = [step EXCEPT ![s[1]] = "begin"]
           ELSE /\ chBuf' = [chBuf EXCEPT ![c] = rest]
                /\ Advance(t)
                /\ UNCHANGED <<sent, sendq>>
        /\ UNCHANGED recvq

\* Unbuffered channel with a blocked sender: its value is taken directly.
RecvFromSender(t, c) ==
    LET s == Head(sendq[c])
    IN  /\ rxv' = [rxv EXCEPT ![t] = s[2]]
        /\ rxok' = [rxok EXCEPT ![t] = TRUE]
        /\ rcvd' = [rcvd EXCEPT ![c] = BagAdd(rcvd[c], s[2])]
        /\ sent' = [sent EXCEPT ![c] = BagAdd(sent[c], s[2])]
        /\ sendq' = [sendq EXCEPT ![c] = Tail(sendq[c])]
        /\ pc' = Returned({t, s[1]})
        /\ step' = [step EXCEPT ![s[1]] = "begin"]
        /\ UNCHANGED <<chBuf, recvq>>

\* Closed and drained, reported as a value received from an open channel.
RecvClosedOk(t) ==
    /\ rxv' = [rxv EXCEPT ![t] = 0]
    /\ rxok' = [rxok EXCEPT ![t] = TRUE]
    /\ Advance(t)
    /\ UNCHANGED <<extVars, chBuf, sendq, recvq, sent, rcvd>>

\* Closed and drained: the zero value and false.
RecvClosed(t) ==
    /\ rxv' = [rxv EXCEPT ![t] = 0]
    /\ rxok' = [rxok EXCEPT ![t] = FALSE]
    /\ Advance(t)
    /\ UNCHANGED <<extVars, chBuf, sendq, recvq, sent, rcvd>>

\* Chan.Recv: v, ok := <-c.ch
Recv(t) ==
    /\ AtIns(t, "Recv")
    /\ step[t] = "begin"
    /\ LET c == ChanOf(t)
       IN  IF chBuf[c] # <<>> THEN RecvBuffer(t, c)
           ELSE IF sendq[c] # <<>> THEN RecvFromSender(t, c)
           ELSE IF IsClosed(c) THEN RecvClosed(t)
           ELSE /\ recvq' = [recvq EXCEPT ![c] = Append(recvq[c], t)]
                /\ step' = [step EXCEPT ![t] = "parked"]
                /\ UNCHANGED <<pc, chBuf, sendq, rxv, rxok, sent, rcvd>>
    /\ UNCHANGED <<extVars, chClosed, wokenq, cvVars, consumed, home, scenario, seed, run, first, prog, status, temp,
                   ptr, wg, waited, crashed, muPtr, locked, shared, trace>>

\* Chan.TryRecv: select { case v, ok := <-c.ch: return v, ok; default: return zero, false }
TryRecv(t) ==
    /\ AtIns(t, "TryRecv")
    /\ LET c == ChanOf(t)
       IN  IF chBuf[c] # <<>> THEN RecvBuffer(t, c)
           ELSE IF sendq[c] # <<>> THEN RecvFromSender(t, c)
           ELSE RecvClosed(t)
    /\ UNCHANGED <<extVars, chClosed, wokenq, cvVars, consumed, home, scenario, seed, run, first, prog, status, temp,
                   ptr, wg, waited, crashed, muPtr, locked, shared, trace>>

\* A receiver that close made runnable resumes: Recv returns the zero
\* value and false.  The Go scheduler picks which runnable goroutine goes on.
RecvReturn(t) ==
    /\ AtIns(t, "Recv")
    /\ step[t] = "woken"
    /\ wokenq' = [wokenq EXCEPT ![ChanOf(t)] = SelectSeq(wokenq[ChanOf(t)], LAMBDA r : r # t)]
    /\ Advance(t)
    /\ UNCHANGED <<extVars, chBuf, chClosed, sendq, recvq, rxv, rxok, sent, rcvd, cvVars, consumed, home,
                   scenario, seed, run, first, prog, status, temp, ptr, wg, waited, crashed,
                   muPtr, locked, shared, trace>>

\* Chan.Close: close(c.ch).  Closing twice panics.  Otherwise every blocked
\* receiver is made runnable with the zero value and false, every blocked
\* sender panics, and the buffer stays.
Close(t) ==
    /\ AtIns(t, "Close")
    /\ LET c == ChanOf(t)
           rs == Range(recvq[c])
           ss == {s[1] : s \in Range(sendq[c])}
       IN  IF IsClosed(c)
           THEN /\ Panicked(t)
                /\ UNCHANGED <<pc, step, chClosed, sendq, recvq, wokenq, rxv, rxok>>
           ELSE /\ chClosed' = [chClosed EXCEPT ![c] = TRUE]
                /\ rxv' = [p \in Procs |-> IF p \in rs THEN 0 ELSE rxv[p]]
                /\ rxok' = [p \in Procs |-> IF p \in rs THEN FALSE ELSE rxok[p]]
                /\ pc' = Returned({t})
                /\ step' = [p \in Procs |-> IF p \in rs THEN "woken" ELSE step[p]]
                /\ status' = [p \in Procs |-> IF p \in ss THEN "panicked" ELSE status[p]]
                /\ wg' = [sch \in Scheds |-> wg[sch] - Cardinality({p \in ss : home[p] = sch})]
                /\ sendq' = [sendq EXCEPT ![c] = <<>>]
                /\ recvq' = [recvq EXCEPT ![c] = <<>>]
                /\ wokenq' = [wokenq EXCEPT ![c] = recvq[c]]
    /\ UNCHANGED <<extVars, chBuf, sent, rcvd, cvVars, consumed, home, scenario, seed, run, first, prog, temp,
                   ptr, waited, crashed, muPtr, locked, shared, trace>>

\* if !ok { goto b }
JmpNotOk(t) ==
    /\ AtIns(t, "JmpNotOk")
    /\ pc' = [pc EXCEPT ![t] = IF rxok[t] THEN pc[t] + 1 ELSE Cur(t).b]
    /\ UNCHANGED <<extVars, chVars, cvVars, consumed, home, scenario, seed, run, first, prog, step, status, temp, ptr,
                   wg, waited, crashed, muPtr, locked, shared, trace>>

\* goto b
Jmp(t) ==
    /\ AtIns(t, "Jmp")
    /\ pc' = [pc EXCEPT ![t] = Cur(t).b]
    /\ UNCHANGED <<extVars, chVars, cvVars, consumed, home, scenario, seed, run, first, prog, step, status, temp, ptr,
                   wg, waited, crashed, muPtr, locked, shared, trace>>

\* a += v, v the value just received
Acc(t) ==
    /\ AtIns(t, "Acc")
    /\ shared' = [shared EXCEPT ![Cur(t).a] = shared[Cur(t).a] + rxv[t]]
    /\ Advance(t)
    /\ UNCHANGED <<extVars, chVars, cvVars, consumed, home, scenario, seed, run, first, prog, status, temp, ptr, wg,
                   waited, crashed, muPtr, locked, trace>>

\* pc.consumed = append(pc.consumed, item)
AppendConsumed(t) ==
    /\ AtIns(t, "Append")
    /\ consumed' = Append(consumed, rxv[t])
    /\ Advance(t)
    /\ UNCHANGED <<extVars, chVars, cvVars, home, scenario, seed, run, first, prog, status, temp, ptr, wg,
                   waited, crashed, muPtr, locked, shared, trace>>

-----------------------------------------------------------------------------
(* scheduler.Cond over sync.Cond: Wait is t := notifyListAdd(); c.L.Unlock(); *)
(* notifyListWait(t); c.L.Lock().                                             *)

\* Cond.Wait, first statement: the caller takes its place in the notify list.
CondWaitAdd(t) ==
    /\ AtIns(t, "CondWait")
    /\ step[t] = "begin"
    /\ condQ' = [condQ EXCEPT ![Cur(t).a] = Append(condQ[Cur(t).a], t)]
    /\ notified' = [notified EXCEPT ![t] = FALSE]
    /\ step' = [step EXCEPT ![t] = "ucheck"]
    /\ UNCHANGED <<extVars, chVars, consumed, home, scenario, seed, run, first, prog, pc, status, temp, ptr, wg,
                   waited, crashed, muPtr, locked, shared, trace>>

\* notifyListWait returns once the caller's ticket was notified.
CondWaitResume(t) ==
    /\ AtIns(t, "CondWait")
    /\ step[t] = "park"
    /\ notified[t]
    /\ step' = [step EXCEPT ![t] = "lcheck"]
    /\ UNCHANGED <<extVars, chVars, cvVars, consumed, home, scenario, seed, run, first, prog, pc, status, temp, ptr,
                   wg, waited, crashed, muPtr, locked, shared, trace>>

\* Cond.Signal: the oldest ticket not yet notified, if there is one.
Signal(t) ==
    /\ AtIns(t, "Signal")
    /\ LET q == condQ[Cur(t).a]
       IN  IF q = <<>>
           THEN UNCHANGED <<condQ, notified>>
           ELSE /\ condQ' = [condQ EXCEPT ![Cur(t).a] = Tail(q)]
                /\ notified' = [notified EXCEPT ![Head(q)] = TRUE]
    /\ Advance(t)
    /\ UNCHANGED <<extVars, chVars, consumed, home, scenario, seed, run, first, prog, status, temp, ptr, wg,
                   waited, crashed, muPtr, locked, shared, trace>>

\* Cond.Broadcast: every ticket issued so far is notified.
Broadcast(t) ==
    /\ AtIns(t, "Broadcast")
    /\ condQ' = [condQ EXCEPT ![Cur(t).a] = <<>>]
    /\ notified' = [u \in Procs |-> notified[u] \/ u \in Range(condQ[Cur(t).a])]
    /\ Advance(t)
    /\ UNCHANGED <<extVars, chVars, consumed, home, scenario, seed, run, first, prog, status, temp,
                   ptr, wg, waited, crashed, muPtr, locked, shared, trace>>

-----------------------------------------------------------------------------
(* examples.WorkerPool: the statements of Submit, Wait and worker between   *)
(* their Lock, Unlock and Cond calls.                                       *)

\* The conditions WorkerPool tests: those that leave worker's wait loop
\* ("work"), pass its shutdown check ("open") and its empty-queue check
\* ("jobs"), and the one that ends Wait's loop ("idle").
PoolCond(c) ==
    CASE c = "work" -> ~(Len(jobs) = 0 /\ shared["shutdown"] = 0)
      [] c = "open" -> ~(shared["shutdown"] = 1 /\ Len(jobs) = 0)
      [] c = "jobs" -> Len(jobs) # 0
      [] c = "idle" -> ~(shared["activeJobs"] > 0 \/ Len(jobs) > 0)

\* if PoolCond(a) { goto b }
JmpIf(t) ==
    /\ AtIns(t, "JmpIf")
    /\ pc' = [pc EXCEPT ![t] = IF PoolCond(Cur(t).a) THEN Cur(t).b ELSE pc[t] + 1]
    /\ UNCHANGED <<extVars, chVars, cvVars, consumed, home, scenario, seed, run, first, prog, step,
                   status, temp, ptr, wg, waited, crashed, muPtr, locked, shared, trace>>

\* wp.jobs = append(wp.jobs, job)
AppendJob(t) ==
    /\ AtIns(t, "AppendJob")
    /\ jobs' = Append(jobs, Cur(t).b)
    /\ Advance(t)
    /\ UNCHANGED <<executed, completed, waitq, rwVars, clkVars, hVars, chVars, cvVars, consumed,
                   home, scenario, seed, run, first, prog, status, temp, ptr, wg, waited, crashed,
                   muPtr, locked, shared, trace>>

\* job := wp.jobs[0]: an index out of range if the slice is empty.
TakeJob(t) ==
    /\ AtIns(t, "TakeJob")
    /\ IF jobs = <<>>
       THEN /\ Panicked(t)
            /\ UNCHANGED <<temp, pc, step>>
       ELSE /\ temp' = [temp EXCEPT ![t] = Head(jobs)]
            /\ Advance(t)
            /\ UNCHANGED <<status, wg>>
    /\ UNCHANGED <<extVars, chVars, cvVars, consumed, home, scenario, seed, run, first, prog, ptr,
                   waited, crashed, muPtr, locked, shared, trace>>

\* wp.jobs = wp.jobs[1:]: slice bounds out of range if the slice is empty.
PopJob(t) ==
    /\ AtIns(t, "PopJob")
    /\ IF jobs = <<>>
       THEN /\ Panicked(t)
            /\ UNCHANGED <<jobs, pc, step>>
       ELSE /\ jobs' = Tail(jobs)
            /\ Advance(t)
            /\ UNCHANGED <<status, wg>>
    /\ UNCHANGED <<executed, completed, waitq, rwVars, clkVars, hVars, chVars, cvVars, consumed,
                   home, scenario, seed, run, first, prog, temp, ptr, waited, crashed, muPtr,
                   locked, shared, trace>>

\* wp.activeJobs++ / wp.activeJobs--
Add(t) ==
    /\ AtIns(t, "Add")
    /\ shared' = [shared EXCEPT ![Cur(t).a] = @ + Cur(t).b]
    /\ Advance(t)
    /\ UNCHANGED <<extVars, chVars, cvVars, consumed, home, scenario, seed, run, first, prog,
                   status, temp, ptr, wg, waited, crashed, muPtr, locked, trace>>

\* job()
RunJob(t) ==
    /\ AtIns(t, "RunJob")
    /\ executed' = Append(executed, <<t, temp[t]>>)
    /\ Advance(t)
    /\ UNCHANGED <<jobs, completed, waitq, rwVars, clkVars, hVars, chVars, cvVars, consumed, home,
                   scenario, seed, run, first, prog, status, temp, ptr, wg, waited, crashed, muPtr,
                   locked, shared, trace>>

\* completed = append(completed, jobID)
AppendCompleted(t) ==
    /\ AtIns(t, "AppendCompleted")
    /\ completed' = Append(completed, temp[t])
    /\ Advance(t)
    /\ UNCHANGED <<jobs, executed, waitq, rwVars, clkVars, hVars, chVars, cvVars, consumed, home,
                   scenario, seed, run, first, prog, status, temp, ptr, wg, waited, crashed, muPtr,
                   locked, shared, trace>>

\* The wall clock moves on, whatever the tasks do.
Tick ==
    /\ ~crashed
    /\ now < MaxNow
    /\ now' = now + 1
    /\ UNCHANGED <<hVars, wpVars, deadline, since, fired, waitq, rwVars, chVars, cvVars, consumed, home, scenario,
                   seed, run, first, prog, pc, step, status, temp, ptr, wg, waited, crashed, muPtr,
                   locked, shared, trace>>

\* The duration Sleep(d) and After(d) hand to the time package.
Scaled(d) == d \div SpeedUp

\* Scheduler.Sleep(d): time.Sleep(d / 1000).  time.Sleep returns at once for
\* a duration of zero, otherwise the goroutine sleeps on a runtime timer.
Sleep(t) ==
    /\ AtIns(t, "Sleep")
    /\ step[t] = "begin"
    /\ since' = [since EXCEPT ![t] = now]
    /\ IF Scaled(Cur(t).b) = 0
       THEN /\ fired' = Append(fired, t)
            /\ Advance(t)
            /\ UNCHANGED deadline
       ELSE /\ deadline' = [deadline EXCEPT ![t] = now + Scaled(Cur(t).b)]
            /\ step' = [step EXCEPT ![t] = "timer"]
            /\ UNCHANGED <<fired, pc>>
    /\ UNCHANGED <<hVars, wpVars, now, waitq, rwVars, chVars, cvVars, consumed, home, scenario, seed, run, first, prog, status, temp, ptr, wg,
                   waited, crashed, muPtr, locked, shared, trace>>

\* <-s.After(d): time.After(d / 1000) starts a runtime timer and the task
\* receives from its channel.
After(t) ==
    /\ AtIns(t, "After")
    /\ step[t] = "begin"
    /\ since' = [since EXCEPT ![t] = now]
    /\ deadline' = [deadline EXCEPT ![t] = now + Scaled(Cur(t).b)]
    /\ step' = [step EXCEPT ![t] = "timer"]
    /\ UNCHANGED <<hVars, wpVars, now, fired, waitq, rwVars, chVars, cvVars, consumed, home, scenario, seed, run,
                   first, prog, pc, status, temp, ptr, wg, waited, crashed, muPtr, locked, shared,
                   trace>>

\* The timer of task t has expired and the task goes on.  Which of several
\* expired timers' goroutines runs first is the runtime's choice.
TimerFire(t) ==
    /\ AtIns(t, "Sleep") \/ AtIns(t, "After")
    /\ step[t] = "timer"
    /\ now >= deadline[t]
    /\ deadline' = [deadline EXCEPT ![t] = NoTimer]
    /\ fired' = Append(fired, t)
    /\ Advance(t)
    /\ UNCHANGED <<hVars, wpVars, now, since, waitq, rwVars, chVars, cvVars, consumed, home, scenario, seed, run,
                   first, prog, status, temp, ptr, wg, waited, crashed, muPtr, locked, shared,
                   trace>>

-----------------------------------------------------------------------------
(* Running the same build function twice with the same seed.               *)

Verdict == IF skipped THEN "Skip" ELSE IF crashed THEN "Panic" ELSE "Done"

Outcome == [verdict |-> Verdict, shared |-> shared, trace |-> trace]

RunOver == crashed \/ status[Driver] = "done" \/ skipped

\* wefttest.Replay(t, seed, build) called again: NewScheduler(seed), build(s), s.Wait().
Replay ==
    /\ Recording
    /\ run = 1
    /\ RunOver
    /\ run' = 2
    /\ first' = <<Outcome>>
    /\ prog' = Fresh(scenario).prog
    /\ pc' = Fresh(scenario).pc
    /\ step' = Fresh(scenario).step
    /\ status' = Fresh(scenario).status
    /\ temp' = Fresh(scenario).temp
    /\ ptr' = Fresh(scenario).ptr
    /\ wg' = [sch \in Scheds |-> 0]
    /\ home' = [t \in Procs |-> "s"]
    /\ waited' = FALSE
    /\ crashed' = FALSE
    /\ muPtr' = Fresh(scenario).muPtr
    /\ locked' = Fresh(scenario).locked
    /\ shared' = Fresh(scenario).shared
    /\ trace' = <<>>
    /\ chBuf' = Fresh(scenario).chBuf
    /\ chClosed' = Fresh(scenario).chClosed
    /\ sendq' = Fresh(scenario).sendq
    /\ recvq' = Fresh(scenario).recvq
    /\ wokenq' = Fresh(scenario).wokenq
    /\ rxv' = Fresh(scenario).rxv
    /\ rxok' = Fresh(scenario).rxok
    /\ sent' = Fresh(scenario).sent
    /\ rcvd' = Fresh(scenario).rcvd
    /\ consumed' = <<>>
    /\ condQ' = Fresh(scenario).condQ
    /\ notified' = Fresh(scenario).notified
    /\ waitq' = Fresh(scenario).waitq
    /\ deadline' = Fresh(scenario).deadline
    /\ since' = Fresh(scenario).since
    /\ fired' = Fresh(scenario).fired
    /\ UNCHANGED <<hVars, wpVars, now, rwVars, scenario, seed>>

\* wefttest.ReplayChoices(t, choices, build) with the records of the first
\* run: t.Skip("ReplayChoices not yet implemented").  No scheduler is made
\* and build is not called.
ReplayChoices ==
    /\ Recording
    /\ run = 1
    /\ RunOver
    /\ run' = 2
    /\ first' = <<Outcome>>
    /\ api' = "ReplayChoices"
    /\ skipped' = TRUE
    /\ skipMsg' = << "ReplayChoices", "not", "yet", "implemented" >>
    /\ hstep' = "ret"
    /\ prog' = Fresh(scenario).prog
    /\ pc' = Fresh(scenario).pc
    /\ step' = Fresh(scenario).step
    /\ status' = [t \in Procs |-> "none"]
    /\ temp' = Fresh(scenario).temp
    /\ ptr' = Fresh(scenario).ptr
    /\ wg' = [sch \in Scheds |-> 0]
    /\ waited' = FALSE
    /\ crashed' = FALSE
    /\ muPtr' = Fresh(scenario).muPtr
    /\ locked' = Fresh(scenario).locked
    /\ waitq' = Fresh(scenario).waitq
    /\ shared' = Fresh(scenario).shared
    /\ trace' = <<>>
    /\ UNCHANGED <<scenario, seed, home, chVars, consumed, cvVars, rwVars, clkVars, wpVars, mode, tb, runs,
                   results, schedulers, builds, failed, reported>>

-----------------------------------------------------------------------------
(* wefttest: Explore, ExploreWithSeeds, Replay.  A call of the build        *)
(* function is one step here; how it ends is an input.                      *)

\* Everything but the harness state.
taskVars == <<scenario, seed, run, first, prog, pc, step, status, temp, ptr, wg, home, waited,
              crashed, muPtr, locked, shared, trace, chVars, consumed, cvVars, waitq, rwVars,
              clkVars, wpVars>>

\* An isDeterministicModeAvailable that answers true in every build.
AlwaysAvailable(m) == TRUE

\* isDeterministicModeAvailable(): true in the file built with -tags=detsched,
\* false in the file built without it.
isDeterministicModeAvailable(m) == m = "detsched"

\* The words of the raw string Explore gives to t.Skipf.
ExploreSkipMessage ==
    << "Deterministic", "concurrency", "testing", "not", "available.",
       "For", "comprehensive", "concurrency", "testing", "that", "can", "detect", "race",
       "conditions,", "deadlocks,", "and", "other", "subtle", "bugs,", "run", "with:",
       "go", "test", "-tags=detsched",
       "This", "enables", "Weft's", "deterministic", "scheduler", "which", "explores",
       "multiple", "execution", "orders", "to", "find", "bugs", "that", "standard", "tests",
       "might", "miss." >>

\* The words of the raw string ExploreWithSeeds gives to t.Skipf.
ExploreWithSeedsSkipMessage ==
    << "Deterministic", "concurrency", "testing", "not", "available.",
       "For", "comprehensive", "concurrency", "testing", "that", "can", "detect", "race",
       "conditions,", "deadlocks,", "and", "other", "subtle", "bugs,", "run", "with:",
       "go", "test", "-tags=detsched",
       "This", "enables", "Weft's", "deterministic", "scheduler", "which", "explores",
       "multiple", "execution", "orders", "to", "find", "bugs", "that", "standard", "tests",
       "might", "miss." >>

\* The words of the raw string Replay gives to t.Skipf.
ReplaySkipMessage ==
    << "Deterministic", "concurrency", "testing", "not", "available.",
       "For", "comprehensive", "concurrency", "testing", "that", "can", "detect", "race",
       "conditions,", "deadlocks,", "and", "other", "subtle", "bugs,", "run", "with:",
       "go", "test", "-tags=detsched",
       "This", "enables", "Weft's", "deterministic", "scheduler", "which", "explores",
       "multiple", "execution", "orders", "to", "find", "bugs", "that", "standard", "tests",
       "might", "miss." >>

SkipMessage(a) ==
    CASE a = "Explore" -> ExploreSkipMessage
      [] a = "ExploreWithSeeds" -> ExploreWithSeedsSkipMessage
      [] a = "Replay" -> ReplaySkipMessage

\* strings.Contains(msg, phrase), on words.
Contains(msg, phrase) ==
    \E k \in 1..Len(msg) : SubSeq(msg, k, k + Len(phrase) - 1) = phrase

\* Explore is asked for at most MaxRuns runs.
MaxRuns == 3

Modes == {"detsched", "notag"}

Apis == {"Explore", "ExploreWithSeeds", "Replay"}

\* How a call of build(s); s.Wait() can end: it returns, it returns after
\* t.Errorf, it panics in the calling goroutine, or a task goroutine panics
\* and the process dies.
Outcomes == {"pass", "errorf", "panic", "crash"}

\* if !isDeterministicModeAvailable() { t.Skipf(...); return }
SkipCheck ==
    /\ hstep = "call"
    /\ IF ~isDeterministicModeAvailable(mode)
       THEN /\ skipped' = TRUE
            /\ skipMsg' = SkipMessage(api)
            /\ hstep' = "ret"
       ELSE /\ hstep' = "loop"
            /\ UNCHANGED <<skipped, skipMsg>>
    /\ UNCHANGED <<taskVars, mode, api, tb, runs, results, schedulers, builds, failed, reported>>

\* The next iteration: s := weft.NewScheduler(seed).  Nothing in the loop
\* looks at the result of an earlier iteration.
NewScheduler ==
    /\ hstep = "loop"
    /\ Len(results) < runs
    /\ schedulers' = schedulers + 1
    /\ hstep' = "run"
    /\ UNCHANGED <<taskVars, mode, api, tb, runs, results, skipped, skipMsg, builds, failed,
                   reported>>

\* The recover of this run is in a subtest of its own (tt.Run).
InSubtest == api # "Replay" /\ tb = "T"

\* build(s); s.Wait() with outcome o.  A panic is recovered by the deferred
\* function, which reports the seed with t.Fatalf: in the subtest, after
\* which the loop goes on, or in the frame of the wefttest function itself,
\* which the panic has ended.
Build(o) ==
    /\ hstep = "run"
    /\ builds' = builds + 1
    /\ results' = Append(results, o)
    /\ failed' = (failed \/ o \in {"errorf", "panic"})
    /\ reported' = IF o = "panic" THEN reported \cup {Len(results) + 1} ELSE reported
    /\ hstep' = CASE o = "crash" -> "dead"
                  [] o = "panic" /\ ~InSubtest -> "ret"
                  [] OTHER -> "loop"
    /\ UNCHANGED <<taskVars, mode, api, tb, runs, skipped, skipMsg, schedulers>>

\* The loop is over.
Return ==
    /\ hstep = "loop"
    /\ Len(results) = runs
    /\ hstep' = "ret"
    /\ UNCHANGED <<taskVars, mode, api, tb, runs, results, skipped, skipMsg, schedulers, builds,
                   failed, reported>>

-----------------------------------------------------------------------------
(* Specifications.                                                         *)

SpawnScenarios == {"TestReplay", "TestNestedSpawn"}

InitSpawn == \E sc \in SpawnScenarios, sd \in Seeds : Start(sc, sd)

NextSpawn ==
    \E t \in Procs :
        \/ Go(t)
        \/ Wait(t)
        \/ TaskReturn(t)
        \/ Load(t)
        \/ Store(t)

SpecSpawn == InitSpawn /\ [][NextSpawn]_vars

MutexScenarios ==
    {"TestCounter", "TestYieldCounter", "TestReplaySpecificSeed", "TestDeadlock",
     "TestSafeBankAccountTransfer"}

InitMutex == \E sc \in MutexScenarios, sd \in Seeds : Start(sc, sd)

NextMutex ==
    \/ \E t \in Procs :
        \/ Go(t)
        \/ Wait(t)
        \/ TaskReturn(t)
        \/ Yield(t)
        \/ Load(t)
        \/ Store(t)
        \/ Set(t)
        \/ JmpLt(t)
        \/ LockCheck(t)
        \/ LockInit(t)
        \/ LockLoad(t)
        \/ LockAcquire(t)
        \/ UnlockCheck(t)
        \/ UnlockRelease(t)
    \/ Crash
    \/ Replay

SpecMutex == InitMutex /\ [][NextMutex]_vars

ChanScenarios == {"TestChannel", "TestProducerConsumer"}

InitChan == \E sc \in ChanScenarios, sd \in Seeds : Start(sc, sd)

NextChan ==
    \E t \in Procs :
        \/ Go(t)
        \/ Wait(t)
        \/ TaskReturn(t)
        \/ Send(t)
        \/ Recv(t)
        \/ RecvReturn(t)
        \/ TrySend(t)
        \/ TryRecv(t)
        \/ Close(t)
        \/ JmpNotOk(t)
        \/ Jmp(t)
        \/ Acc(t)
        \/ AppendConsumed(t)
        \/ LockCheck(t)
        \/ LockInit(t)
        \/ LockLoad(t)
        \/ LockAcquire(t)
        \/ UnlockCheck(t)
        \/ UnlockRelease(t)

SpecChan == InitChan /\ [][NextChan]_vars

CondScenarios == {"TestConditionVariable"}

InitCond == \E sc \in CondScenarios, sd \in Seeds : Start(sc, sd)

NextCond ==
    \E t \in Procs :
        \/ Go(t)
        \/ Wait(t)
        \/ TaskReturn(t)
        \/ Sleep(t)
        \/ Load(t)
        \/ Set(t)
        \/ JmpLt(t)
        \/ Jmp(t)
        \/ LockCheck(t)
        \/ LockInit(t)
        \/ LockLoad(t)
        \/ LockAcquire(t)
        \/ UnlockCheck(t)
        \/ UnlockRelease(t)
        \/ CondWaitAdd(t)
        \/ CondWaitResume(t)
        \/ Signal(t)

SpecCond == InitCond /\ [][NextCond]_vars

ExploreScenarios == {"ExploreQuickStart", "ExploreTestCounter"}

InitExplore == \E sc \in ExploreScenarios, sd \in Seeds : Start(sc, sd)

NextExplore ==
    \E t \in Procs :
        \/ Go(t)
        \/ GoDefault(t)
        \/ Wait(t)
        \/ TaskReturn(t)
        \/ Load(t)
        \/ Store(t)
        \/ LockCheck(t)
        \/ LockInit(t)
        \/ LockLoad(t)
        \/ LockAcquire(t)
        \/ UnlockCheck(t)
        \/ UnlockRelease(t)

SpecExplore == InitExplore /\ [][NextExplore]_vars

MisuseScenarios == {"UnlockZero", "UnlockAgain", "UnlockOther", "LockAgain"}

InitMisuse == \E sc \in MisuseScenarios, sd \in Seeds : Start(sc, sd)

NextMisuse ==
    \/ \E t \in Procs :
        \/ Go(t)
        \/ Wait(t)
        \/ TaskReturn(t)
        \/ Load(t)
        \/ Store(t)
        \/ LockCheck(t)
        \/ LockInit(t)
        \/ LockLoad(t)
        \/ LockAcquire(t)
        \/ UnlockCheck(t)
        \/ UnlockRelease(t)
    \/ Crash

SpecMisuse == InitMisuse /\ [][NextMisuse]_vars

FairnessScenarios == {"Barging", "TryBarging"}

InitFairness == \E sc \in FairnessScenarios, sd \in Seeds : Start(sc, sd)

NextFairness ==
    \E t \in Procs :
        \/ Go(t)
        \/ Wait(t)
        \/ TaskReturn(t)
        \/ JmpNotOk(t)
        \/ LockCheck(t)
        \/ LockInit(t)
        \/ LockLoad(t)
        \/ LockPark(t)
        \/ LockAcquire(t)
        \/ TryLock(t)
        \/ UnlockCheck(t)
        \/ UnlockRelease(t)

SpecFairness == InitFairness /\ [][NextFairness]_vars

\* One BankAccount used by writers (Deposit) and readers (Balance): after a
\* first Deposit by the build function, or as NewBankAccount returned it.
RWScenarios == {"TwoWriters", "ReadersWriter", "ZeroReadersWriter"}

InitRW == \E sc \in RWScenarios, sd \in Seeds : Start(sc, sd)

RWStep(t) ==
    \/ Go(t)
    \/ Wait(t)
    \/ TaskReturn(t)
    \/ Load(t)
    \/ Store(t)
    \/ Jmp(t)
    \/ LockCheck(t)
    \/ LockInit(t)
    \/ LockLoad(t)
    \/ LockPark(t)
    \/ LockAcquire(t)
    \/ WLockAnnounce(t)
    \/ WLockEnter(t)
    \/ RLockAcquire(t)
    \/ UnlockCheck(t)
    \/ RUnlockRelease(t)
    \/ WUnlockRelease(t)
    \/ WUnlockW(t)

NextRW == \E t \in Procs : RWStep(t)

SpecRW == InitRW /\ [][NextRW]_vars

\* Every goroutine that can run is run again by the Go runtime.
SpecRWLive == SpecRW /\ \A t \in Procs : WF_vars(RWStep(t))

ClockScenarios == {"Timers", "Sleepers"}

InitClock == \E sc \in ClockScenarios, sd \in Seeds : Start(sc, sd)

NextClock ==
    \/ \E t \in Procs :
        \/ Go(t)
        \/ Wait(t)
        \/ TaskReturn(t)
        \/ Sleep(t)
        \/ After(t)
        \/ TimerFire(t)
    \/ Tick

SpecClock == InitClock /\ [][NextClock]_vars

\* Runs that never end by themselves.
LimitScenarios == {"YieldForever", "SpinForever"}

InitLimit == \E sc \in LimitScenarios, sd \in Seeds : Start(sc, sd)

NextLimit ==
    \/ \E t \in Procs :
        \/ Go(t)
        \/ Wait(t)
        \/ TaskReturn(t)
        \/ Yield(t)
        \/ Load(t)
        \/ Store(t)
        \/ Jmp(t)
    \/ Crash

SpecLimit == InitLimit /\ [][NextLimit]_vars

\* A test calls one of the wefttest functions, in either build, with a
\* *testing.T or with another testing.TB.
InitHarness ==
    /\ \E sd \in Seeds : Loaded("TestCounter", sd)
    /\ mode \in Modes
    /\ api \in Apis
    /\ tb \in {"T", "mock"}
    /\ runs \in 1..MaxRuns
    /\ api = "Replay" => runs = 1
    /\ hstep = "call"
    /\ results = <<>>
    /\ skipped = FALSE
    /\ skipMsg = <<>>
    /\ schedulers = 0
    /\ builds = 0
    /\ failed = FALSE
    /\ reported = {}

NextHarness ==
    \/ SkipCheck
    \/ NewScheduler
    \/ \E o \in Outcomes : Build(o)
    \/ Return

SpecHarness == InitHarness /\ [][NextHarness]_vars

\* TestReplaySpecificSeed's build function is run once and its records are
\* given to ReplayChoices.
InitChoices == \E sd \in Seeds : Start("TestReplaySpecificSeed", sd)

NextChoices ==
    \/ \E t \in Procs :
        \/ Go(t)
        \/ Wait(t)
        \/ TaskReturn(t)
        \/ Load(t)
        \/ Store(t)
        \/ LockCheck(t)
        \/ LockInit(t)
        \/ LockLoad(t)
        \/ LockAcquire(t)
        \/ UnlockCheck(t)
        \/ UnlockRelease(t)
    \/ ReplayChoices

SpecChoices == InitChoices /\ [][NextChoices]_vars

InitPool == \E sd \in Seeds : Start("TestWorkerPool", sd)

\* A step of task t of a build function that uses the WorkerPool.
PoolStep(t) ==
    \/ Go(t)
    \/ Wait(t)
    \/ TaskReturn(t)
    \/ Set(t)
    \/ Jmp(t)
    \/ JmpIf(t)
    \/ LockCheck(t)
    \/ LockInit(t)
    \/ LockLoad(t)
    \/ LockAcquire(t)
    \/ UnlockCheck(t)
    \/ UnlockRelease(t)
    \/ CondWaitAdd(t)
    \/ CondWaitResume(t)
    \/ Signal(t)
    \/ Broadcast(t)
    \/ AppendJob(t)
    \/ TakeJob(t)
    \/ PopJob(t)
    \/ Add(t)
    \/ RunJob(t)
    \/ AppendCompleted(t)

NextPool == \E t \in Procs : PoolStep(t)

SpecPool == InitPool /\ [][NextPool]_vars

\* The seed plays no part in a run: one seed is enough here.
InitWaiters == Start("PoolWaiters", 42)

\* A step of task t of the pool that is never shut down.
WaitersStep(t) ==
    \/ Go(t)
    \/ TaskReturn(t)
    \/ Jmp(t)
    \/ JmpIf(t)
    \/ LockCheck(t)
    \/ LockInit(t)
    \/ LockLoad(t)
    \/ LockAcquire(t)
    \/ UnlockCheck(t)
    \/ UnlockRelease(t)
    \/ CondWaitAdd(t)
    \/ CondWaitResume(t)
    \/ Signal(t)
    \/ Broadcast(t)
    \/ AppendJob(t)
    \/ TakeJob(t)
    \/ PopJob(t)
    \/ Add(t)
    \/ RunJob(t)

NextWaiters == \E t \in Procs : WaitersStep(t)

\* Every goroutine that can run is run again by the Go runtime.
SpecWaiters ==
    InitWaiters /\ [][NextWaiters]_vars /\ \A t \in Procs : WF_vars(WaitersStep(t))

\* TestWorkerPool, and a pool shut down while its workers start.
ShutdownScenarios == {"TestWorkerPool", "ShutdownIdle"}

InitShutdown == \E sc \in ShutdownScenarios, sd \in Seeds : Start(sc, sd)

\* Every goroutine that can run is run again by the Go runtime.
SpecShutdown ==
    InitShutdown /\ [][NextPool]_vars /\ \A t \in Procs : WF_vars(PoolStep(t))

ChanOpsScenarios == {"CloseMisuse", "CloseWakes", "Rendezvous", "TryOps"}

InitChanOps == \E sc \in ChanOpsScenarios, sd \in Seeds : Start(sc, sd)

NextChanOps ==
    \/ \E t \in Procs :
        \/ Go(t)
        \/ Wait(t)
        \/ TaskReturn(t)
        \/ Send(t)
        \/ Recv(t)
        \/ RecvReturn(t)
        \/ TrySend(t)
        \/ TryRecv(t)
        \/ Close(t)
    \/ Crash

SpecChanOps == InitChanOps /\ [][NextChanOps]_vars

\* One producer and one consumer on a channel of capacity 1 (TestChannel),
\* of capacity NumItems, of capacity 0, and a channel closed before the
\* consumer starts.
ChanOrderScenarios == {"TestChannel", "FillAndDrain", "RvChannel", "DrainClosed"}

InitChanOrder == \E sc \in ChanOrderScenarios, sd \in Seeds : Start(sc, sd)

NextChanOrder ==
    \E t \in Procs :
        \/ Go(t)
        \/ Wait(t)
        \/ TaskReturn(t)
        \/ Send(t)
        \/ Recv(t)
        \/ RecvReturn(t)
        \/ Close(t)
        \/ JmpNotOk(t)
        \/ Jmp(t)
        \/ Acc(t)

SpecChanOrder == InitChanOrder /\ [][NextChanOrder]_vars

\* Build functions whose tasks block on a mutex, on a channel and on a
\* condition variable.
ListsScenarios == {"TestConditionVariable", "TestChannel", "Barging", "CloseWakes"}

InitLists == \E sc \in ListsScenarios, sd \in Seeds : Start(sc, sd)

NextLists ==
    \E t \in Procs :
        \/ Go(t)
        \/ Wait(t)
        \/ TaskReturn(t)
        \/ Sleep(t)
        \/ Load(t)
        \/ Set(t)
        \/ JmpLt(t)
        \/ Jmp(t)
        \/ JmpNotOk(t)
        \/ Acc(t)
        \/ LockCheck(t)
        \/ LockInit(t)
        \/ LockLoad(t)
        \/ LockPark(t)
        \/ LockAcquire(t)
        \/ UnlockCheck(t)
        \/ UnlockRelease(t)
        \/ CondWaitAdd(t)
        \/ CondWaitResume(t)
        \/ Signal(t)
        \/ Send(t)
        \/ Recv(t)
        \/ RecvReturn(t)
        \/ Close(t)

SpecLists == InitLists /\ [][NextLists]_vars

\* NumTasks tasks that each call Counter.IncrementWithWork once.
InitRace == \E sd \in Seeds : Start("TestCounterRaceCondition", sd)

NextRace ==
    \E t \in Procs :
        \/ Go(t)
        \/ Wait(t)
        \/ TaskReturn(t)
        \/ Load(t)
        \/ Store(t)
        \/ LockCheck(t)
        \/ LockInit(t)
        \/ LockLoad(t)
        \/ LockAcquire(t)
        \/ UnlockCheck(t)
        \/ UnlockRelease(t)

SpecRace == InitRace /\ [][NextRace]_vars

\* Two opposite transfers between two accounts of 100 each: both safe, both
\* unsafe, and an unsafe one of more than the balance against a safe one.
BankScenarios == {"TestSafeBankAccountTransfer", "TestBankAccountTransfer", "Overdraft"}

InitBank == \E sc \in BankScenarios, sd \in Seeds : Start(sc, sd)

NextBank ==
    \E t \in Procs :
        \/ Go(t)
        \/ Wait(t)
        \/ TaskReturn(t)
        \/ Load(t)
        \/ Store(t)
        \/ Set(t)
        \/ JmpLt(t)
        \/ LockCheck(t)
        \/ LockInit(t)
        \/ LockLoad(t)
        \/ LockAcquire(t)
        \/ UnlockCheck(t)
        \/ UnlockRelease(t)

SpecBank == InitBank /\ [][NextBank]_vars

-----------------------------------------------------------------------------
(* Claims.                                                                 *)

CountOp(seq, op, res) ==
    Cardinality({i \in 1..Len(seq) : seq[i].op = op /\ seq[i].a = res})

\* Task t is inside Cond.Wait on m's Cond, past the release of m.
Released(t, m) ==
    /\ AtIns(t, "CondWait")
    /\ CondLocker(Cur(t).a) = m
    /\ step[t] \in {"park", "lcheck", "init", "load", "acq", "wait", "retry"}

\* Task t is between a returned Lock of m and the matching Unlock.
Holds(t, m) ==
    /\ status[t] = "run"
    /\ ~Released(t, m)
    /\ LET past == SubSeq(Bodies[prog[t]], 1, pc[t] - 1)
       IN  CountOp(past, "Lock", m) > CountOp(past, "Unlock", m)

\* Task t is blocked: in sync.Mutex.Lock on a locked instance, in a channel
\* operation, or in notifyListWait with its ticket not notified.
Parked(t) ==
    \/ LockStep(t, "acq") /\ ~CanAcquire(LockOf(t), ptr[t])
    \/ LockStep(t, "wait")
    \/ (AtIns(t, "Send") \/ AtIns(t, "Recv")) /\ step[t] = "parked"
    \/ AtIns(t, "CondWait") /\ step[t] = "park" /\ ~notified[t]

\* Inside its body: started and not yet at its end.
MidBody(t) ==
    /\ status[t] = "run"
    /\ pc[t] > 1
    /\ pc[t] <= Len(Bodies[prog[t]])

\* The build function is in Wait, no task can run, none waits for a timer,
\* and some task is parked.
DeadlockState ==
    /\ ~crashed
    /\ AtIns(Driver, "Wait")
    /\ \A t \in Procs : status[t] # "panicked"
    /\ \A t \in Tasks : status[t] = "run" => Parked(t)
    /\ \E t \in Tasks : status[t] = "run"

\* C1: two runs of the same build function with the same seed end with the
\* same verdict, the same records and the same shared state.
C1_SameSeedSameRun ==
    (run = 2 /\ RunOver) => Outcome = first[1]

\* C2: at most one task is inside its body at a time (no step of one task
\* falls between two steps of another), and NumTasks unsynchronised counter++
\* leave counter = NumTasks when Wait returns.
C2_NoInterleaving ==
    /\ Cardinality({t \in Tasks : MidBody(t)}) <= 1
    /\ (scenario = "TestReplay" /\ waited) => shared["counter"] = NumTasks

SpawnedBy(sc) == IF sc = "TestNestedSpawn" THEN NumTasks + 1 ELSE NumTasks

\* C3: when Wait has returned, every task spawned with Go, by the build
\* function or by a running task, has finished, and none is running.
C3_WaitAfterAllTasks ==
    waited =>
        /\ \A t \in Tasks : status[t] \in {"none", "done"}
        /\ Cardinality({t \in Tasks : status[t] = "done"}) = SpawnedBy(scenario)

C3_Witness ==
    /\ waited
    /\ scenario = "TestNestedSpawn"
    /\ Cardinality({t \in Tasks : status[t] = "done"}) = NumTasks + 1

\* C4: at most one task is between a returned Lock and its Unlock of the same
\* mutex, and NumTasks locked increments leave the counter at NumTasks when
\* Wait returns.
C4_MutualExclusion ==
    /\ \A m \in Mutexes : Cardinality({t \in Tasks : Holds(t, m)}) <= 1
    /\ (scenario \in {"TestCounter", "TestYieldCounter"} /\ waited)
          => shared["value"] = NumTasks

\* C5: when no task is Ready, no timer is pending and a task is parked on a
\* resource, Wait terminates (with verdict Deadlock) instead of blocking for
\* ever: with the two tasks that lock A then B and B then A parked on each
\* other's mutex, Wait can return.
C5_WaitReportsDeadlock ==
    (scenario = "TestDeadlock" /\ DeadlockState) => ENABLED Wait(Driver)

\* C6: mutexes taken in one global order never deadlock: the two opposite
\* SafeTransfer calls both return in every interleaving.
C6_SafeTransfersReturn ==
    scenario = "TestSafeBankAccountTransfer" => (~crashed /\ ~DeadlockState)

BagOfSeq(q) == [v \in Range(q) |-> Cardinality({i \in 1..Len(q) : q[i] = v})]

\* C7: for every channel the values received with ok = true, together with
\* the values still in the buffer, are as a multiset exactly the values the
\* channel accepted from Send and TrySend, also once the channel is closed
\* with values buffered; when TestChannel ends, every value sent was received
\* once and result is their sum.
C7_ChannelConservation ==
    /\ \A c \in Chans : rcvd[c] (+) BagOfSeq(chBuf[c]) = sent[c]
    /\ (scenario = "TestChannel" /\ waited) =>
          /\ sent["ch"] = SetToBag(1..NumItems)
          /\ chBuf["ch"] = <<>>
          /\ 2 * shared["result"] = NumItems * (NumItems + 1)

\* The run is over, the queue was closed with values in its buffer and the
\* consumer had received some.
C7_Witness ==
    /\ waited
    /\ scenario = "TestProducerConsumer"
    /\ chClosed["items"]
    /\ chBuf["items"] # <<>>
    /\ rcvd["items"] # EmptyBag

\* C8: with the producer pushing 1..NumItems into a queue of that capacity
\* and closing it, Consume returns exactly those items in every interleaving.
C8_ConsumeReturnsAll ==
    (scenario = "TestProducerConsumer" /\ waited) =>
        /\ Len(consumed) = NumItems
        /\ BagOfSeq(consumed) = SetToBag(1..NumItems)

\* C9: the waiter/signaler protocol of TestConditionVariable never loses the
\* wakeup: no run dies or blocks for ever, and when Wait returns processed
\* is true.
C9_NoLostWakeup ==
    scenario = "TestConditionVariable" =>
        /\ ~crashed
        /\ ~DeadlockState
        /\ waited => shared["processed"] = 1

\* The instruction before the one task t is at.
Prev(t) == Bodies[prog[t]][pc[t] - 1]

\* C10: Cond.Wait, called by a task holding the Locker given to NewCond,
\* releases that Locker (the release is of the lock the caller took), parks
\* the caller with its place in the notify list taken before the release, and
\* returns with the caller holding that same Locker.
C10_WaitReleasesAndReacquires ==
    \A t \in Tasks :
        /\ (AtIns(t, "CondWait") /\ step[t] = "urel") =>
              /\ muPtr[LockOf(t)] = ptr[t]
              /\ locked[LockOf(t)][ptr[t]]
        /\ (AtIns(t, "CondWait") /\ step[t] \in {"ucheck", "urel", "park"}) =>
              (t \in Range(condQ[Cur(t).a]) \/ notified[t])
        /\ (~crashed /\ status[t] = "run" /\ pc[t] > 1 /\ step[t] = "begin"
              /\ Prev(t).op = "CondWait") =>
              /\ muPtr[CondLocker(Prev(t).a)] = ptr[t]
              /\ locked[CondLocker(Prev(t).a)][ptr[t]]

\* C11: tasks started with the package-level weft.Go inside the build
\* function are waited for by s.Wait(): when it has returned every one of
\* them has completed and the locked counter equals their number.
C11_WaitCoversPackageGo ==
    (scenario = "ExploreQuickStart" /\ waited) =>
        /\ \A t \in Tasks : status[t] \in {"none", "done"}
        /\ Cardinality({t \in Tasks : status[t] = "done"}) = NumTasks
        /\ shared["value"] = NumTasks

\* The driver is at the s.Wait() that Explore calls after the build function.
AtSecondWait ==
    /\ scenario \in ExploreScenarios
    /\ waited
    /\ AtIns(Driver, "Wait")

\* C12: s.Wait() called again after the build function's own s.Wait()
\* returned goes on at once, and the call changes nothing: no task state, no
\* counter, no shared variable, and the verdict stays what it was.
C12_SecondWaitNoOp ==
    /\ [](AtSecondWait => ENABLED Wait(Driver))
    /\ [][(AtSecondWait /\ Wait(Driver)) =>
            /\ UNCHANGED <<status, wg, home, shared, muPtr, locked, crashed, waited, trace>>
            /\ \A t \in Tasks : pc'[t] = pc[t] /\ step'[t] = step[t]
            /\ Verdict' = Verdict]_vars

\* Explore's s.Wait() has returned after TestCounter's run.
C12_Witness ==
    /\ scenario = "ExploreTestCounter"
    /\ pc[Driver] > Len(Bodies[scenario])
    /\ shared["value"] = NumTasks
    /\ ~crashed

\* C13: a panic in a task's closure surfaces at the driver's Wait, where the
\* recover of Explore / Replay catches it: once a task has panicked the
\* process is not ended by the panic, and Wait does not return as after a
\* run without one.
C13_PanicSurfacesAtWait ==
    (\E t \in Tasks : status[t] = "panicked") => (~crashed /\ ~waited)

\* Task t is in Unlock of a mutex it does not hold.
MisuseUnlock(t) ==
    /\ AtIns(t, "Unlock")
    /\ ~Holds(t, Cur(t).a)

\* C14: Unlock of a mutex that is unlocked (a never-locked zero value too) or
\* held by another task panics in the caller and leaves the mutex as it was:
\* no step of such an Unlock releases the mutex, ends the process or returns,
\* and the step that ends the call leaves the caller panicked.
C14_UnlockMisusePanics ==
    [][\A t \in Tasks :
          (MisuseUnlock(t) /\ (UnlockCheck(t) \/ UnlockRelease(t))) =>
              /\ locked' = locked
              /\ muPtr' = muPtr
              /\ ~crashed'
              /\ pc'[t] = pc[t]
              /\ (step'[t] = step[t]) => status'[t] = "panicked"]_vars

\* C15: Lock by the task that holds the mutex is an error raised in that
\* task: the holder is never blocked in Lock on its own mutex.
C15_NoSelfPark ==
    \A t \in Tasks :
        ~(/\ LockStep(t, "acq")
          /\ Holds(t, LockOf(t))
          /\ ~CanAcquire(LockOf(t), ptr[t]))

\* Buffer, closed flag and wait lists of channel c.
ChanState(c) == <<chBuf[c], chClosed[c], sendq[c], recvq[c]>>

\* C16: Send on a closed channel, and Close of a closed channel, panic in
\* the calling task and leave buffer, closed flag and wait lists of every
\* channel as they were.
C16_ClosedChannelMisuse ==
    [][\A t \in Tasks :
          ((Send(t) \/ Close(t)) /\ chClosed[ChanOf(t)]) =>
              /\ status'[t] = "panicked"
              /\ pc'[t] = pc[t]
              /\ \A c \in Chans : ChanState(c)' = ChanState(c)]_vars

\* One task has panicked in Send on the closed ch (it was not blocked when ch
\* was closed) and another in its second Close.
C16_Witness ==
    /\ scenario = "CloseMisuse"
    /\ chClosed["ch"]
    /\ \E t, u \in Tasks :
          /\ status[t] = "panicked" /\ Cur(t).op = "Send" /\ step[t] = "begin"
          /\ status[u] = "panicked" /\ Cur(u).op = "Close"

\* C17: Close of an open channel on which a sender is blocked is an error
\* raised in the task that calls Close.
C17_CloseWithParkedSender ==
    [][\A t \in Tasks :
          (Close(t) /\ ~chClosed[ChanOf(t)] /\ sendq[ChanOf(t)] # <<>>) =>
              status'[t] = "panicked"]_vars

\* C18: Close sets the channel closed and wakes every receiver blocked on it
\* with (zero value, false), none stays blocked on a closed channel, and the
\* receivers go on in the order in which they had blocked.
C18_CloseWakesInOrder ==
    /\ [](\A c \in Chans : chClosed[c] =>
            /\ recvq[c] = <<>>
            /\ \A r \in Range(wokenq[c]) : rxv[r] = 0 /\ ~rxok[r])
    /\ [][\A t \in Tasks : RecvReturn(t) => t = Head(wokenq[ChanOf(t)])]_vars

\* C19: on the unbuffered rv, Send blocks exactly when no receiver is blocked,
\* Recv on the open channel blocks exactly when no sender is blocked, nothing
\* is ever buffered, and every value accepted is received in the same step.
C19_Rendezvous ==
    /\ [](chBuf["rv"] = <<>> /\ sent["rv"] = rcvd["rv"])
    /\ [][\A t \in Tasks :
            /\ (Send(t) /\ ChanOf(t) = "rv" /\ ~chClosed["rv"]) =>
                  ((step'[t] = "parked") <=> (recvq["rv"] = <<>>))
            /\ (Recv(t) /\ ChanOf(t) = "rv" /\ ~chClosed["rv"]) =>
                  ((step'[t] = "parked") <=> (sendq["rv"] = <<>>))]_vars

\* Every value sent on rv went from the sender to the receiver.
C19_Witness ==
    /\ scenario = "Rendezvous"
    /\ waited
    /\ rcvd["rv"] = SetToBag(1..NumItems)

\* The caller of a Try operation is neither blocked nor on a wait list.
NotParked(t) ==
    /\ step[t] # "parked"
    /\ \A c \in Chans : t \notin Range(recvq[c]) /\ t \notin {s[1] : s \in Range(sendq[c])}

\* C20: TrySend and TryRecv never block the caller; TrySend returns true
\* exactly when the value went to a blocked receiver or into the buffer,
\* TryRecv returns ok = true exactly when it took a value, and a false result
\* leaves every channel as it was.
C20_TryNeverParks ==
    [][\A t \in Tasks :
          /\ (TrySend(t) /\ status'[t] = "run") =>
                LET c == ChanOf(t)
                    v == Cur(t).b
                    handed == /\ recvq[c] # <<>>
                              /\ recvq'[c] = Tail(recvq[c])
                              /\ rxv'[Head(recvq[c])] = v
                    stored == chBuf'[c] = Append(chBuf[c], v)
                IN  /\ NotParked(t)'
                    /\ pc'[t] = pc[t] + 1
                    /\ rxok'[t] <=> (handed \/ stored)
                    /\ ~rxok'[t] => \A d \in Chans : ChanState(d)' = ChanState(d)
          /\ TryRecv(t) =>
                LET c == ChanOf(t)
                IN  /\ NotParked(t)'
                    /\ pc'[t] = pc[t] + 1
                    /\ rxok'[t] <=> (rcvd'[c] = BagAdd(rcvd[c], rxv'[t]))
                    /\ ~rxok'[t] => \A d \in Chans : ChanState(d)' = ChanState(d)]_vars

\* A TrySend found ch full and returned false, and a TryRecv took a value.
C20_Witness ==
    /\ scenario = "TryOps"
    /\ \E t, u \in Tasks :
          /\ prog[t] = "TrySender" /\ pc[t] > 1 /\ ~rxok[t]
          /\ Len(chBuf["ch"]) = Cap("ch")
          /\ prog[u] = "TryReceiver" /\ pc[u] > 1 /\ rxok[u]

\* Task t is in sync.Mutex.Lock of instance i of m at statement s.
InLock(t, m, i, s) == LockStep(t, s) /\ LockOf(t) = m /\ ptr[t] = i

\* This step is task t taking the free instance i of m.
Acquires(t, m, i) ==
    /\ status[t] = "run"
    /\ pc[t] <= Len(Bodies[prog[t]])
    /\ Cur(t).op \in {"Lock", "TryLock", "CondWait"}
    /\ LockOf(t) = m
    /\ ptr[t] = i
    /\ step[t] \in {"acq", "retry"}
    /\ ~locked[m][i]
    /\ locked'[m][i]
    /\ pc'[t] = pc[t] + 1

\* C21: Unlock hands the mutex to the head waiter: a task that calls Lock or
\* TryLock after the Unlock (it reaches the mutex without having slept on it)
\* never takes the mutex while a task that parked before it is still waiting
\* for it, woken or asleep.
C21_NoBarging ==
    [][\A t \in Procs, m \in Mutexes, i \in Procs :
          (Acquires(t, m, i) /\ step[t] = "acq")
              => /\ waitq[m][i] = <<>>
                 /\ \A u \in Procs : ~InLock(u, m, i, "retry")]_vars

\* This step is RLock returning to task t without sleeping.
ReaderEnters(t) ==
    /\ status[t] = "run"
    /\ pc[t] <= Len(Bodies[prog[t]])
    /\ Cur(t).op = "RLock"
    /\ step[t] = "acq"
    /\ pc'[t] = pc[t] + 1

\* Task u is asleep in RWMutex.Lock: behind another writer or waiting for the
\* readers to leave.
WriterParked(u) == AtIns(u, "WLock") /\ step[u] \in {"wait", "drain"}

\* Task u is between a returned RWMutex.Lock and the release of the readers
\* by its Unlock.
WriterHolds(u) ==
    /\ status[u] = "run"
    /\ LET past == SubSeq(Bodies[prog[u]], 1, pc[u] - 1)
       IN  CountOp(past, "WLock", "acct") > CountOp(past, "WUnlock", "acct")
    /\ ~(AtIns(u, "WUnlock") /\ step[u] = "wrel")

\* C22: RLock returns at once only if no writer holds the lock and no writer
\* is parked in Lock.
C22_WritePreference ==
    [][\A t \in Procs :
          ReaderEnters(t) =>
              \A u \in Procs \ {t} : ~WriterParked(u) /\ ~WriterHolds(u)]_vars

\* C23: with readers that always release, every task parked in RWMutex.Lock
\* eventually holds the write lock.
C23_WriterEventuallyAcquires ==
    \A t \in Tasks : WriterParked(t) ~> WriterHolds(t)

\* Task t waits for its timer.
OnTimer(t) == (AtIns(t, "Sleep") \/ AtIns(t, "After")) /\ step[t] = "timer"

\* Task t could take a step now: it runs and is neither parked, nor waiting
\* for a timer, nor the build function inside Wait.
Ready(t) ==
    /\ ~crashed
    /\ status[t] = "run"
    /\ ~Parked(t)
    /\ ~OnTimer(t)
    /\ ~(AtIns(t, "Wait") /\ ~WgZero(wg["s"]))

\* The earliest deadline among the running timers.
EarliestDeadline ==
    CHOOSE d \in {deadline[t] : t \in {u \in Procs : OnTimer(u)}} :
        \A t \in Procs : OnTimer(t) => d <= deadline[t]

\* This step is task t coming back from Sleep.
SleepReturns(t) ==
    /\ status[t] = "run"
    /\ pc[t] <= Len(Bodies[prog[t]])
    /\ Cur(t).op = "Sleep"
    /\ pc'[t] = pc[t] + 1

\* C24: now never moves backward; it moves only when no task is Ready and a
\* timer is pending, and then to the earliest pending deadline; Sleep(d)
\* called at time t returns with now >= t + d.
C24_LogicalClock ==
    [][/\ now' >= now
       /\ now' # now =>
              /\ \A t \in Procs : ~Ready(t)
              /\ \E t \in Procs : OnTimer(t)
              /\ now' = EarliestDeadline
       /\ \A t \in Procs :
              SleepReturns(t) => now' >= since'[t] + Cur(t).b]_vars

\* C25: task A waits for After(10), task B for After(5): B's timer fires
\* first, and once both have fired now is 10.
C25_TimersInDeadlineOrder ==
    scenario = "Timers" =>
        /\ Len(fired) >= 1 => prog[fired[1]] = "AfterFive"
        /\ Len(fired) = 2 => now = 10

\* C26: a run with a task that loops forever on Yield ends with the verdict
\* Timeout.
C26_YieldLoopTimesOut ==
    (scenario = "YieldForever" /\ RunOver) => Verdict = "Timeout"

\* C28: without deterministic mode Explore, ExploreWithSeeds and Replay skip
\* the test, all three with the message Explore uses, which contains
\* 'go test -tags=detsched', and they make no scheduler and never call the
\* build function; with deterministic mode none of them skips.
C28_SkipWithoutDetsched ==
    /\ mode = "notag" =>
          /\ schedulers = 0
          /\ builds = 0
          /\ hstep # "call" =>
                /\ skipped
                /\ hstep = "ret"
                /\ skipMsg = ExploreSkipMessage
                /\ Contains(skipMsg, << "go", "test", "-tags=detsched" >>)
    /\ mode = "detsched" => ~skipped

\* Replay, built without the tag, has returned from its skip check.
C28_Witness ==
    /\ mode = "notag"
    /\ api = "Replay"
    /\ hstep = "ret"
    /\ skipped

\* C29: Explore starts no run after a run that failed, and the seed of a
\* run that panicked is reported.
C29_StopsAtFirstFailure ==
    /\ [][(api = "Explore" /\ schedulers' > schedulers)
              => \A k \in 1..Len(results) : results[k] = "pass"]_vars
    /\ [](\A k \in 1..Len(results) : results[k] = "panic" => k \in reported)

\* C27: ReplayChoices, given the records of a run of the unchanged build
\* function, ends with the verdict of that run and with the same records.
C27_ReplayChoicesRoundTrip ==
    (api = "ReplayChoices" /\ run = 2 /\ RunOver) =>
        /\ Verdict = first[1].verdict
        /\ trace = first[1].trace

\* Number of calls of job j so far.
Executions(j) == Cardinality({k \in 1..Len(executed) : executed[k][2] = j})

\* WorkerPool.Wait has left its loop and is about to return.
PoolWaitReturns == AtIns(Driver, "Unlock") /\ pc[Driver] = PoolWaitAt + 4

\* C30: no job is executed twice; WorkerPool.Wait returns only with an empty
\* queue, activeJobs == 0 and every submitted job executed; and at the end of
\* the run every job has been executed exactly once.
C30_EachJobOnce ==
    /\ \A j \in 1..NumJobs : Executions(j) <= 1
    /\ PoolWaitReturns =>
          /\ jobs = <<>>
          /\ shared["activeJobs"] = 0
          /\ \A j \in 1..NumJobs : Executions(j) = 1
    /\ RunOver => \A j \in 1..NumJobs : Executions(j) = 1

\* Task t makes the first step of a Recv call.
RecvStep(t) ==
    /\ AtIns(t, "Recv")
    /\ step[t] = "begin"
    /\ <<pc[t], step[t]>>' # <<pc[t], step[t]>>

\* C31: a Recv on a closed channel whose buffer still holds values returns
\* the oldest buffered value with open = true and removes it; with an empty
\* buffer it returns the zero value with open = false.  Either way it returns
\* in that step, without parking.
C31_RecvOnClosed ==
    [][\A t \in Procs :
          (RecvStep(t) /\ chClosed[ChanOf(t)]) =>
              /\ pc'[t] = pc[t] + 1
              /\ step'[t] = "begin"
              /\ recvq' = recvq
              /\ IF chBuf[ChanOf(t)] # <<>>
                 THEN /\ rxok'[t]
                      /\ rxv'[t] = Head(chBuf[ChanOf(t)])
                      /\ chBuf'[ChanOf(t)] = Tail(chBuf[ChanOf(t)])
                 ELSE /\ ~rxok'[t]
                      /\ rxv'[t] = 0
                      /\ chBuf' = chBuf]_vars

\* The consumer started after Close has received all buffered values in
\* order and then the zero value with open = false.
C31_Witness ==
    /\ scenario = "DrainClosed"
    /\ chClosed["items"]
    /\ chBuf["items"] = <<>>
    /\ shared["result"] = (NumItems * (NumItems + 1)) \div 2
    /\ \E t \in Tasks : status[t] = "done" /\ ~rxok[t] /\ rxv[t] = 0

\* Number of values received from channel c so far.
Received(c) == BagCardinality(rcvd[c])

\* C40: the one sender of each channel sends 1, 2, ... in this order, and
\* the k-th value a Recv takes from the channel is k, whatever the capacity
\* of the channel (NumItems, 1 or 0) and whether the value came from the
\* buffer, from a parked sender or was handed to a parked receiver.
C40_FifoOrder ==
    [][\A c \in Chans :
          rcvd'[c] # rcvd[c] => rcvd'[c] = BagAdd(rcvd[c], Received(c) + 1)]_vars

\* On the capacity-1 channel the sender is parked with the last value while
\* the buffer holds the one before it and the earlier ones were received.
C40_Witness ==
    /\ scenario = "TestChannel"
    /\ \E t \in Tasks : sendq["ch"] = << <<t, NumItems>> >>
    /\ chBuf["ch"] = << NumItems - 1 >>
    /\ Received("ch") = NumItems - 2

\* This step is the first half of task t's RWMutex.Unlock.
WriterUnlocks(t) == AtIns(t, "WUnlock") /\ step[t] = "load" /\ step'[t] = "wrel"

\* This step is the second half of task t's RWMutex.Unlock.
WriterLeaves(t) == AtIns(t, "WUnlock") /\ step[t] = "wrel" /\ pc'[t] = pc[t] + 1

\* C32: when a writer unlocks while a writer is parked in Lock, no parked
\* reader is released, and when the unlock is complete the first parked
\* writer owns the inner lock: it was handed over, not set free.
C32_UnlockPrefersWriters ==
    [][\A t \in Procs :
          /\ (WriterUnlocks(t) /\ \E u \in Procs \ {t} : WriterParked(u)) =>
                \A r \in BlockedReaders(muPtr[Cur(t).a]) : pc'[r] = pc[r]
          /\ (WriterLeaves(t) /\ waitq[Cur(t).a][ptr[t]] # <<>>) =>
                locked'[Cur(t).a][ptr[t]]]_vars

\* The wait lists task t is on: the semaphore queue of a sync.Mutex
\* instance, the send or receive queue of a channel, the notify list of a
\* sync.Cond.
ListsOf(t) ==
    {<<"mutex", m>> : m \in {n \in Mutexes : \E i \in Procs : t \in Range(waitq[n][i])}}
    \cup {<<"chan", c>> : c \in {d \in Chans :
                                    \/ t \in Range(recvq[d])
                                    \/ \E s \in Range(sendq[d]) : s[1] = t}}
    \cup {<<"cond", c>> : c \in {d \in Conds : t \in Range(condQ[d])}}

\* The resources task t is parked on: it sleeps in Lock, in Send or Recv,
\* or in Cond.Wait with its ticket not notified.
ParkedOn(t) ==
    IF status[t] # "run" \/ pc[t] > Len(Bodies[prog[t]]) THEN {}
    ELSE IF Cur(t).op \in {"Lock", "CondWait"} /\ step[t] = "wait"
        THEN {<<"mutex", LockOf(t)>>}
    ELSE IF Cur(t).op \in {"Send", "Recv"} /\ step[t] = "parked"
        THEN {<<"chan", ChanOf(t)>>}
    ELSE IF Cur(t).op = "CondWait" /\ step[t] = "park" /\ ~notified[t]
        THEN {<<"cond", Cur(t).a>>}
    ELSE {}

\* C33: as long as the process lives, the wait lists a task is on are
\* exactly the resources it is parked on, they are at most one, and a task
\* that runs, is done or has panicked is on none.
C33_WaitListsMatchState ==
    ~crashed =>
        \A t \in Procs :
            /\ ListsOf(t) = ParkedOn(t)
            /\ Cardinality(ListsOf(t)) <= 1

\* This step is task t's call of ctx.Yield().
YieldStep(t) == AtIns(t, "Yield") /\ <<pc[t], status[t]>>' # <<pc[t], status[t]>>

\* C34: the Context a task closure receives is usable: ctx.Yield() leaves
\* the task runnable and it goes on with the statement after the call.
C34_YieldResumes ==
    [][\A t \in Tasks :
          YieldStep(t) => status'[t] = "run" /\ pc'[t] = pc[t] + 1]_vars

\* Task t runs WorkerPool.worker.
IsWorker(t) == prog[t] = "Worker"

\* Shutdown has set wp.shutdown.
ShutdownSet == shared["shutdown"] = 1

\* C35: a worker has returned only if shutdown is set and the queue is
\* empty, and once Shutdown has set the flag every worker eventually returns
\* and Scheduler.Wait returns.
C35_ShutdownStopsWorkers ==
    /\ [](\A t \in Tasks :
            (IsWorker(t) /\ status[t] = "done") => (ShutdownSet /\ jobs = <<>>))
    /\ ShutdownSet ~>
          (waited /\ \A t \in Tasks : IsWorker(t) => status[t] = "done")

\* C36: when Wait has returned after NumTasks calls of IncrementWithWork,
\* the counter is at least 1 and at most NumTasks ...
C36_LostUpdateBounds ==
    waited => shared["value"] \in 1..NumTasks

\* ... and in some interleaving an update is lost: Wait has returned, every
\* task is done and the counter is below NumTasks.
C36_Witness ==
    /\ waited
    /\ ~crashed
    /\ \A t \in 1..NumTasks : status[t] = "done"
    /\ shared["value"] < NumTasks

\* Both transfer calls of the build function have returned.
TransfersReturned == \A t \in 1..2 : status[t] = "done"

\* C37: once both transfers have returned, the balances add up to the
\* initial 200 and none is negative; after the opposite transfers of 50 and
\* 30 at least one call has reported success.
C37_MoneyConserved ==
    TransfersReturned =>
        /\ shared["bal1"] + shared["bal2"] = 200
        /\ shared["bal1"] >= 0
        /\ shared["bal2"] >= 0
        /\ scenario \in {"TestSafeBankAccountTransfer", "TestBankAccountTransfer"}
              => (shared["ok1"] = 1 \/ shared["ok2"] = 1)

\* TestSafeBankAccountTransfer has ended with both transfers made.
C37_Witness ==
    /\ scenario = "TestSafeBankAccountTransfer"
    /\ waited
    /\ TransfersReturned
    /\ shared["bal1"] = 80
    /\ shared["bal2"] = 120
    /\ shared["ok1"] = 1
    /\ shared["ok2"] = 1

\* The workers of a pool that have been started.
PoolWorkers == {t \in Tasks : status[t] # "none" /\ prog[t] \in {"Worker", "WorkerPlain"}}

\* A Signal or Broadcast on wp.cond is the next statement of some task.
WakeUpPending ==
    \E t \in Procs :
        /\ status[t] = "run"
        /\ pc[t] <= Len(Bodies[prog[t]])
        /\ Cur(t).op \in {"Signal", "Broadcast"}

\* Jobs are queued, none is running, and every worker sleeps in cond.Wait
\* with nothing on its way to wake it.
PoolStuck ==
    /\ jobs # <<>>
    /\ shared["activeJobs"] = 0
    /\ PoolWorkers # {}
    /\ \A t \in PoolWorkers : ParkedOn(t) = {<<"cond", "cond">>}
    /\ ~WakeUpPending

\* C38: in a pool with a worker and no Shutdown the stuck state (jobs queued,
\* activeJobs == 0, every worker parked, no wake-up pending) is never
\* reached, every job in the queue is eventually executed, and a task in
\* WorkerPool.Wait eventually returns.
C38_PoolProgress ==
    /\ [](~PoolStuck)
    /\ \A j \in 1..NumJobs : (\E k \in 1..Len(jobs) : jobs[k] = j) ~> (Executions(j) >= 1)
    /\ \A t \in Tasks : (status[t] = "run" /\ prog[t] = "PoolWaiter") ~> (status[t] = "done")

\* Task u is between a returned RWMutex.RLock and the release by its RUnlock.
ReaderHolds(u) ==
    /\ status[u] = "run"
    /\ LET past == SubSeq(Bodies[prog[u]], 1, pc[u] - 1)
       IN  CountOp(past, "RLock", "acct") > CountOp(past, "RUnlock", "acct")

\* This step is RUnlock returning to task t.
RUnlockReturns(t) == AtIns(t, "RUnlock") /\ pc'[t] = pc[t] + 1

\* C39: at most one task holds the RWMutex for writing, no task holds it for
\* reading while one holds it for writing, the reader count of every
\* instance is never negative, and RUnlock returns only to a task that held
\* the lock for reading on an instance with a reader.
C39_WriterExcludesAll ==
    /\ [](/\ Cardinality({u \in Procs : WriterHolds(u)}) <= 1
          /\ (\E u \in Procs : WriterHolds(u)) => \A r \in Procs : ~ReaderHolds(r)
          /\ \A i \in DOMAIN readerCount : readerCount[i] >= 0)
    /\ [][\A t \in Procs :
             RUnlockReturns(t) =>
                 /\ ReaderHolds(t)
                 /\ readerCount[muPtr[Cur(t).a]] > 0
                 /\ readerCount'[muPtr[Cur(t).a]] = readerCount[muPtr[Cur(t).a]] - 1]_vars

====
